---- MODULE Spec2Model ----
(***************************************************************************)
(* A model of tpcds-util (oracle-db/tpcds-util/src/tpcds_util): the        *)
(* synthetic data generator (synthetic_generator.py), the bulk loader      *)
(* (loader.py) and the schema tools (database.py).                         *)
(*                                                                         *)
(* Each component has its own specification over its own variables; the    *)
(* variables of the other components keep their initial value.             *)
(***************************************************************************)
EXTENDS Integers, Sequences, FiniteSets, TLC

VARIABLES
    \* ---- SyntheticDataGenerator ----
    watch,            \* the random draw whose columns the run follows
    gen_pc,           \* index into tables_to_generate (write_to_files)
    generated_data,   \* self.generated_data: table -> [n, rec]
    dimension_keys,   \* self.dimension_keys: dimension -> set of surrogate keys
    gen_loop,         \* the local list and loop position of the running fact generator
    gen_error,        \* a generator raised (a key pool it reads is missing)
    \* ---- DataLoader._load_table_direct ----
    data_file,        \* the data file and what the database makes of its rows
    tl_pc,            \* position in _load_table_direct
    line_num,         \* number of lines read from the data file
    batch_data,       \* rows waiting for the next insert
    retry_pos,        \* position of the row-by-row fallback in batch_data
    rows_inserted,    \* the counter rows_inserted
    session,          \* the database session of the load: rows it holds, commits
    tl_result,        \* the value _load_table_direct returned
    \* ---- DataLoader.load_data ----
    data_dir,         \* the tables whose data file exists in the data directory
    table_filter,     \* the argument table ("" when absent)
    parallel,         \* the argument parallel
    ld_pc,            \* position of load_data
    ld_next,          \* position of its loop over data_files.items()
    data_files,       \* the local data_files, as the list of its keys
    loads,            \* table -> the call of _load_table_direct for it
    work_queue,       \* ThreadPoolExecutor: submitted calls no thread has taken
    connections,      \* every connection opened: who opened it, who used it, open or closed
    success_count,    \* the local success_count
    started,          \* the tables in the order their load was started
    test_connection,  \* what db_manager.test_connection() returned to load_data
    ld_result,        \* the value load_data returned
    \* ---- DatabaseManager.execute_sql_file ----
    sql_file,         \* the script file: whether it exists, its text
    target_schema,    \* the argument target_schema ("" when absent)
    sql_pc,           \* position in execute_sql_file
    lines,            \* the local lines
    line_i,           \* number of lines the splitting loop has handled
    current_stmt,     \* the local current_stmt
    statements,       \* the local statements
    stmt_i,           \* number of statements the execution loop has handled
    attempts,         \* every cursor.execute so far: statement, session, outcome
    sql_session,      \* the connection of the run
    sql_result,       \* the value execute_sql_file returned
    \* ---- DatabaseManager._qualify_sql_for_schema ----
    modified_sql,     \* the local modified_sql
    table_i,          \* number of names of tpcds_tables its loop has handled
    \* ---- DataLoader._load_table_direct, one line of the data file ----
    row_line,         \* the line read from the data file
    column_types,     \* the data types of the destination columns, in column order
    co_pc,            \* position in the body of the loop over the lines
    values,           \* the local values
    processed_values, \* the local processed_values
    \* ---- DatabaseManager.create_schema ----
    create_pc,        \* position in create_schema
    schema_name,      \* the local schema_name
    schema_file,      \* the argument schema_file (<< >> when none is given and none is found)
    user_exists,      \* what _check_schema_user_exists returned
    user_created,     \* what _create_schema_user returned
    can_create,       \* what _check_create_privileges returned
    probe_table,      \* whether the scratch table of the probe is in the target schema
    create_result,    \* the value create_schema returned
    \* ---- DatabaseManager.copy_schema ----
    copy_pc,          \* position in copy_schema
    table_list,       \* the argument table_list
    include_data,     \* the argument include_data
    copy_i,           \* number of tables the loop has handled
    copy_log,         \* what happened to each table handled, in order
    successful_copies,\* the local successful_copies
    failed_copies,    \* the local failed_copies
    target_tables,    \* the tables the run created in the target schema
    copy_session,     \* the connection of the run
    copy_result,      \* the value copy_schema returned
    \* ---- create_synthetic_data(scale=0), the test mode of the generator ----
    config,           \* the DataGenerationConfig of the run
    test_pc,          \* position in write_to_files and in the generator it has called
    current_date,     \* the local current_date of generate_date_dimension
    test_dates,       \* the local dates of generate_date_dimension
    keys_of,          \* dimension_keys, the keys of each dimension generated so far
    stores,           \* generated_data["store"]
    store_sales,      \* the local store_sales of generate_store_sales
    sales_loop,       \* the loop variables of generate_store_sales
    \* ---- cli.py, one run of the command line ----
    cli_pc,           \* position in the command function
    command,          \* the command of the run
    options,          \* the options of the command line
    operation,        \* what the operation of the command returned
    message,          \* the message the command printed
    exit_code,        \* the exit code of the process, -1 while it runs
    \* ---- _get_schema_name of DatabaseManager and of DataLoader ----
    schema_override,  \* the argument schema_override ("" when the option is absent)
    configured,       \* config.schema_name
    resolved,         \* the resolvers that have returned
    db_schema_name,   \* what DatabaseManager._get_schema_name returned
    loader_schema_name,\* what DataLoader._get_schema_name returned
    \* ---- DatabaseManager._create_schema_user and _create_schema_user_fallback ----
    user_pc,          \* position in _create_schema_user
    via,              \* the path taken: the elevated connection or the fallback
    elevated,         \* the SYSDBA connection: not opened, open or closed
    own_connection,   \* the connection of get_connection in the fallback
    privilege_i,      \* number of privileges the loop over privileges has handled
    granted,          \* the privileges granted, in order
    grant_failed,     \* the privileges whose GRANT raised oracledb.Error
    user_returned,    \* what _create_schema_user returned
    \* ---- DatabaseManager.copy_schema, the tables of the database ----
    source_schema,    \* the argument source_schema
    copy_target,      \* the argument target_schema of copy_schema
    catalog_before,   \* the tables of the two schemas at the call: qualified name -> rows
    catalog           \* the tables of the two schemas: qualified name -> rows

genVars == <<watch, gen_pc, generated_data, dimension_keys, gen_loop, gen_error>>

tableVars == <<data_file, tl_pc, line_num, batch_data, retry_pos, rows_inserted,
               session, tl_result>>

loadVars == <<data_dir, table_filter, parallel, ld_pc, ld_next, data_files, loads,
              work_queue, connections, success_count, started, test_connection,
              ld_result>>

sqlVars == <<sql_file, target_schema, sql_pc, lines, line_i, current_stmt, statements,
             stmt_i, attempts, sql_session, sql_result, modified_sql, table_i>>

rowVars == <<row_line, column_types, co_pc, values, processed_values>>

createVars == <<create_pc, schema_name, schema_file, user_exists, user_created, can_create,
                probe_table, create_result>>

copyVars == <<copy_pc, table_list, include_data, copy_i, copy_log, successful_copies,
              failed_copies, target_tables, copy_session, copy_result>>

testVars == <<config, test_pc, current_date, test_dates, keys_of, stores, store_sales,
              sales_loop>>

cliVars == <<cli_pc, command, options, operation, message, exit_code>>

resolveVars == <<schema_override, configured, resolved, db_schema_name, loader_schema_name>>

userVars == <<user_pc, via, elevated, own_connection, privilege_i, granted, grant_failed,
              user_returned>>

catalogVars == <<source_schema, copy_target, catalog_before, catalog>>

vars == <<genVars, tableVars, loadVars, sqlVars, rowVars, createVars, copyVars, testVars,
          cliVars, resolveVars, userVars, catalogVars>>

\* the variables a component leaves alone
notGen == <<tableVars, loadVars, sqlVars, rowVars, createVars, copyVars, testVars, cliVars,
            resolveVars, userVars, catalogVars>>
notTable == <<genVars, loadVars, sqlVars, rowVars, createVars, copyVars, testVars, cliVars,
              resolveVars, userVars, catalogVars>>
notLoad == <<genVars, tableVars, sqlVars, rowVars, createVars, copyVars, testVars, cliVars,
             resolveVars, userVars, catalogVars>>
notSql == <<genVars, tableVars, loadVars, rowVars, createVars, copyVars, testVars, cliVars,
            resolveVars, userVars, catalogVars>>
notRow == <<genVars, tableVars, loadVars, sqlVars, createVars, copyVars, testVars, cliVars,
            resolveVars, userVars, catalogVars>>
notCreate == <<genVars, tableVars, loadVars, sqlVars, rowVars, copyVars, testVars, cliVars,
               resolveVars, userVars, catalogVars>>
notCopy == <<genVars, tableVars, loadVars, sqlVars, rowVars, createVars, testVars, cliVars,
             resolveVars, userVars>>
notTest == <<genVars, tableVars, loadVars, sqlVars, rowVars, createVars, copyVars, cliVars,
             resolveVars, userVars, catalogVars>>
notCli == <<genVars, tableVars, loadVars, sqlVars, rowVars, createVars, copyVars, testVars,
            resolveVars, userVars, catalogVars>>
notResolve == <<genVars, tableVars, loadVars, sqlVars, rowVars, createVars, copyVars,
                testVars, cliVars, userVars, catalogVars>>
notUser == <<genVars, tableVars, loadVars, sqlVars, rowVars, createVars, copyVars,
             testVars, cliVars, resolveVars, catalogVars>>
notCatalog == <<genVars, tableVars, loadVars, sqlVars, rowVars, createVars, copyVars,
                testVars, cliVars, resolveVars, userVars>>
notCreateSql == <<genVars, tableVars, loadVars, rowVars, copyVars, testVars, cliVars,
                  resolveVars, userVars, catalogVars>>

\* A specification leaves the components it does not run in these states.
GenOff ==
    /\ watch = "none"
    /\ gen_pc = 0
    /\ generated_data = << >>
    /\ dimension_keys = << >>
    /\ gen_loop = << >>
    /\ gen_error = FALSE

TableOff ==
    /\ data_file = << >>
    /\ tl_pc = "off"
    /\ line_num = 0
    /\ batch_data = << >>
    /\ retry_pos = 0
    /\ rows_inserted = 0
    /\ session = << >>
    /\ tl_result = "none"

LoadOff ==
    /\ data_dir = {}
    /\ table_filter = ""
    /\ parallel = 0
    /\ ld_pc = "off"
    /\ ld_next = 0
    /\ data_files = << >>
    /\ loads = << >>
    /\ work_queue = << >>
    /\ connections = << >>
    /\ success_count = 0
    /\ started = << >>
    /\ test_connection = "none"
    /\ ld_result = "none"

SqlOff ==
    /\ sql_file = << >>
    /\ target_schema = ""
    /\ sql_pc = "off"
    /\ lines = << >>
    /\ line_i = 0
    /\ current_stmt = ""
    /\ statements = << >>
    /\ stmt_i = 0
    /\ attempts = << >>
    /\ sql_session = << >>
    /\ sql_result = "none"
    /\ modified_sql = ""
    /\ table_i = 0

RowOff ==
    /\ row_line = ""
    /\ column_types = << >>
    /\ co_pc = "off"
    /\ values = << >>
    /\ processed_values = << >>

CreateOff ==
    /\ create_pc = "off"
    /\ schema_name = ""
    /\ schema_file = << >>
    /\ user_exists = "none"
    /\ user_created = "none"
    /\ can_create = "none"
    /\ probe_table = FALSE
    /\ create_result = "none"

CopyOff ==
    /\ copy_pc = "off"
    /\ table_list = << >>
    /\ include_data = FALSE
    /\ copy_i = 0
    /\ copy_log = << >>
    /\ successful_copies = 0
    /\ failed_copies = << >>
    /\ target_tables = {}
    /\ copy_session = << >>
    /\ copy_result = "none"

TestOff ==
    /\ config = << >>
    /\ test_pc = "off"
    /\ current_date = << >>
    /\ test_dates = << >>
    /\ keys_of = << >>
    /\ stores = << >>
    /\ store_sales = << >>
    /\ sales_loop = << >>

CliOff ==
    /\ cli_pc = "off"
    /\ command = ""
    /\ options = << >>
    /\ operation = "none"
    /\ message = ""
    /\ exit_code = 0 - 1

ResolveOff ==
    /\ schema_override = ""
    /\ configured = ""
    /\ resolved = {}
    /\ db_schema_name = ""
    /\ loader_schema_name = ""

UserOff ==
    /\ user_pc = "off"
    /\ via = "none"
    /\ elevated = "none"
    /\ own_connection = "none"
    /\ privilege_i = 0
    /\ granted = << >>
    /\ grant_failed = {}
    /\ user_returned = "none"

CatalogOff ==
    /\ source_schema = ""
    /\ copy_target = ""
    /\ catalog_before = << >>
    /\ catalog = << >>

(***************************************************************************)
(* Generic helpers                                                         *)
(***************************************************************************)
Min(a, b) == IF a <= b THEN a ELSE b

\* d[k] = v, adding k to the dictionary when absent
Put(d, k, v) == [x \in (DOMAIN d) \cup {k} |-> IF x = k THEN v ELSE d[x]]

(***************************************************************************)
(* SYNTHETIC DATA GENERATOR                                                *)
(*                                                                         *)
(* A table of generated_data is kept as its record count n and one record  *)
(* rec, the record of one freely chosen iteration of the generator's loop  *)
(* (every record the code can append is the chosen one of some behaviour). *)
(* A record is kept projected on the columns that one random draw feeds:   *)
(* watch names that draw, a foreign-key column that is drawn afresh or the *)
(* quantity of a sales table (for its quantity and money columns).  The    *)
(* columns are drawn independently of each other, so following one draw at *)
(* a time visits every value every column can take.                        *)
(* A surrogate-key value is a set: {} for None, {k} for the key k.         *)
(* Money is in cents.                                                      *)
(***************************************************************************)

\* ---- sizes of the run (DataGenerationConfig and the fixed-size loops) ----
NumDays == 8                      \* days from config.start_date to config.end_date
NumCustomers == 80                \* config.num_customers
NumItems == 2                     \* config.num_items
NumStores == 5                    \* config.num_stores
NumWarehouses == 2                \* config.num_warehouses
NumWebSites == 2                  \* config.num_web_sites
NumCustomerDemographics == 3      \* range(10000), scaled down
NumHouseholdDemographics == 3     \* range(7200), scaled down
MaxTx == 1                        \* largest store_transactions of one store and date

NumRegions == 4
NumShipModes == 5
NumTimes == 96
NumReasons == 12
NumIncomeBands == 7
NumPromotions == 24
NumWebPages == 30
NumCatalogPages == 12
SampleEvery == 7
PromoDrawMax == 300
StoreSalesCap == 100000
WebSalesCap == 2000
CatalogSalesCap == 1500
WebPerCustomers == 5
CatalogPerCustomers == 10
StoreReturnPct == 12
WebReturnPct == 18
CatalogReturnPct == 13
WebTaxRate == 800
CatalogTaxRate == 700

NoRec == << >>

\* round(x, 2) of the exact value n/d cents (d > 0): the nearest cent; on an
\* exact half cent the binary float may fall on either side
Round2(n, d) == {k \in {n \div d, (n \div d) + 1} : 2 * (k * d - n) <= d /\ 2 * (n - k * d) <= d}

\* ---- the foreign-key columns of the six fact tables ----
Col(tab, col, dim, how, src, lo, hi) ==
    [tab |-> tab, col |-> col, dim |-> dim, how |-> how, src |-> src, lo |-> lo, hi |-> hi]

StoreSalesColumns ==
    { Col("store_sales", "ss_sold_date_sk", "date_dim", "loopdate", "", 0, 0),
      Col("store_sales", "ss_sold_time_sk", "time_dim", "choice", "", 0, 0),
      Col("store_sales", "ss_item_sk", "item", "choice", "", 0, 0),
      Col("store_sales", "ss_customer_sk", "customer", "choice", "", 0, 0),
      Col("store_sales", "ss_cdemo_sk", "customer_demographics", "choice", "", 0, 0),
      Col("store_sales", "ss_hdemo_sk", "household_demographics", "choice", "", 0, 0),
      Col("store_sales", "ss_addr_sk", "customer_address", "choice", "", 0, 0),
      Col("store_sales", "ss_store_sk", "store", "loopstore", "", 0, 0),
      Col("store_sales", "ss_promo_sk", "promotion", "randint_opt", "", 1, PromoDrawMax) }

StoreReturnsColumns ==
    { Col("store_returns", "sr_returned_date_sk", "date_dim", "sale_offset", "ss_sold_date_sk", 1, 30),
      Col("store_returns", "sr_return_time_sk", "time_dim", "choice", "", 0, 0),
      Col("store_returns", "sr_item_sk", "item", "copy", "ss_item_sk", 0, 0),
      Col("store_returns", "sr_customer_sk", "customer", "copy", "ss_customer_sk", 0, 0),
      Col("store_returns", "sr_cdemo_sk", "customer_demographics", "copy", "ss_cdemo_sk", 0, 0),
      Col("store_returns", "sr_hdemo_sk", "household_demographics", "copy", "ss_hdemo_sk", 0, 0),
      Col("store_returns", "sr_addr_sk", "customer_address", "copy", "ss_addr_sk", 0, 0),
      Col("store_returns", "sr_store_sk", "store", "copy", "ss_store_sk", 0, 0),
      Col("store_returns", "sr_reason_sk", "reason", "choice", "", 0, 0) }

WebSalesColumns ==
    { Col("web_sales", "ws_sold_date_sk", "date_dim", "choice", "", 0, 0),
      Col("web_sales", "ws_sold_time_sk", "time_dim", "choice", "", 0, 0),
      Col("web_sales", "ws_ship_date_sk", "date_dim", "offset", "ws_sold_date_sk", 1, 7),
      Col("web_sales", "ws_item_sk", "item", "choice", "", 0, 0),
      Col("web_sales", "ws_bill_customer_sk", "customer", "choice", "", 0, 0),
      Col("web_sales", "ws_bill_cdemo_sk", "customer_demographics", "choice", "", 0, 0),
      Col("web_sales", "ws_bill_hdemo_sk", "household_demographics", "choice", "", 0, 0),
      Col("web_sales", "ws_bill_addr_sk", "customer_address", "choice", "", 0, 0),
      Col("web_sales", "ws_ship_customer_sk", "customer", "var", "ws_bill_customer_sk", 0, 0),
      Col("web_sales", "ws_ship_cdemo_sk", "customer_demographics", "choice", "", 0, 0),
      Col("web_sales", "ws_ship_hdemo_sk", "household_demographics", "choice", "", 0, 0),
      Col("web_sales", "ws_ship_addr_sk", "customer_address", "choice", "", 0, 0),
      Col("web_sales", "ws_web_page_sk", "web_page", "choice", "", 0, 0),
      Col("web_sales", "ws_web_site_sk", "web_site", "choice", "", 0, 0),
      Col("web_sales", "ws_ship_mode_sk", "ship_mode", "choice", "", 0, 0),
      Col("web_sales", "ws_warehouse_sk", "warehouse", "choice", "", 0, 0),
      Col("web_sales", "ws_promo_sk", "promotion", "choice_opt", "", 0, 0) }

WebReturnsColumns ==
    { Col("web_returns", "wr_returned_date_sk", "date_dim", "sale_offset", "ws_sold_date_sk", 1, 45),
      Col("web_returns", "wr_returned_time_sk", "time_dim", "choice", "", 0, 0),
      Col("web_returns", "wr_item_sk", "item", "copy", "ws_item_sk", 0, 0),
      Col("web_returns", "wr_refunded_customer_sk", "customer", "copy", "ws_bill_customer_sk", 0, 0),
      Col("web_returns", "wr_refunded_cdemo_sk", "customer_demographics", "copy", "ws_bill_cdemo_sk", 0, 0),
      Col("web_returns", "wr_refunded_hdemo_sk", "household_demographics", "copy", "ws_bill_hdemo_sk", 0, 0),
      Col("web_returns", "wr_refunded_addr_sk", "customer_address", "copy", "ws_bill_addr_sk", 0, 0),
      Col("web_returns", "wr_returning_customer_sk", "customer", "copy", "ws_ship_customer_sk", 0, 0),
      Col("web_returns", "wr_returning_cdemo_sk", "customer_demographics", "copy", "ws_ship_cdemo_sk", 0, 0),
      Col("web_returns", "wr_returning_hdemo_sk", "household_demographics", "copy", "ws_ship_hdemo_sk", 0, 0),
      Col("web_returns", "wr_returning_addr_sk", "customer_address", "copy", "ws_ship_addr_sk", 0, 0),
      Col("web_returns", "wr_web_page_sk", "web_page", "copy", "ws_web_page_sk", 0, 0),
      Col("web_returns", "wr_reason_sk", "reason", "choice", "", 0, 0) }

CatalogSalesColumns ==
    { Col("catalog_sales", "cs_sold_date_sk", "date_dim", "choice", "", 0, 0),
      Col("catalog_sales", "cs_sold_time_sk", "time_dim", "none", "", 0, 0),
      Col("catalog_sales", "cs_ship_date_sk", "date_dim", "offset", "cs_sold_date_sk", 3, 14),
      Col("catalog_sales", "cs_bill_customer_sk", "customer", "choice", "", 0, 0),
      Col("catalog_sales", "cs_bill_cdemo_sk", "customer_demographics", "choice", "", 0, 0),
      Col("catalog_sales", "cs_bill_hdemo_sk", "household_demographics", "choice", "", 0, 0),
      Col("catalog_sales", "cs_bill_addr_sk", "customer_address", "choice", "", 0, 0),
      Col("catalog_sales", "cs_ship_customer_sk", "customer", "var", "cs_bill_customer_sk", 0, 0),
      Col("catalog_sales", "cs_ship_cdemo_sk", "customer_demographics", "choice", "", 0, 0),
      Col("catalog_sales", "cs_ship_hdemo_sk", "household_demographics", "choice", "", 0, 0),
      Col("catalog_sales", "cs_ship_addr_sk", "customer_address", "choice", "", 0, 0),
      Col("catalog_sales", "cs_call_center_sk", "call_center", "choice", "", 0, 0),
      Col("catalog_sales", "cs_catalog_page_sk", "catalog_page", "choice", "", 0, 0),
      Col("catalog_sales", "cs_ship_mode_sk", "ship_mode", "choice", "", 0, 0),
      Col("catalog_sales", "cs_warehouse_sk", "warehouse", "choice", "", 0, 0),
      Col("catalog_sales", "cs_item_sk", "item", "choice", "", 0, 0),
      Col("catalog_sales", "cs_promo_sk", "promotion", "choice_opt", "", 0, 0) }

CatalogReturnsColumns ==
    { Col("catalog_returns", "cr_returned_date_sk", "date_dim", "sale_offset", "cs_sold_date_sk", 1, 60),
      Col("catalog_returns", "cr_returned_time_sk", "time_dim", "none", "", 0, 0),
      Col("catalog_returns", "cr_item_sk", "item", "copy", "cs_item_sk", 0, 0),
      Col("catalog_returns", "cr_refunded_customer_sk", "customer", "copy", "cs_bill_customer_sk", 0, 0),
      Col("catalog_returns", "cr_refunded_cdemo_sk", "customer_demographics", "copy", "cs_bill_cdemo_sk", 0, 0),
      Col("catalog_returns", "cr_refunded_hdemo_sk", "household_demographics", "copy", "cs_bill_hdemo_sk", 0, 0),
      Col("catalog_returns", "cr_refunded_addr_sk", "customer_address", "copy", "cs_bill_addr_sk", 0, 0),
      Col("catalog_returns", "cr_returning_customer_sk", "customer", "copy", "cs_ship_customer_sk", 0, 0),
      Col("catalog_returns", "cr_returning_cdemo_sk", "customer_demographics", "copy", "cs_ship_cdemo_sk", 0, 0),
      Col("catalog_returns", "cr_returning_hdemo_sk", "household_demographics", "copy", "cs_ship_hdemo_sk", 0, 0),
      Col("catalog_returns", "cr_returning_addr_sk", "customer_address", "copy", "cs_ship_addr_sk", 0, 0),
      Col("catalog_returns", "cr_call_center_sk", "call_center", "copy", "cs_call_center_sk", 0, 0),
      Col("catalog_returns", "cr_catalog_page_sk", "catalog_page", "copy", "cs_catalog_page_sk", 0, 0),
      Col("catalog_returns", "cr_ship_mode_sk", "ship_mode", "copy", "cs_ship_mode_sk", 0, 0),
      Col("catalog_returns", "cr_warehouse_sk", "warehouse", "copy", "cs_warehouse_sk", 0, 0),
      Col("catalog_returns", "cr_reason_sk", "reason", "choice", "", 0, 0) }

Columns ==
    StoreSalesColumns \cup StoreReturnsColumns \cup WebSalesColumns \cup WebReturnsColumns
        \cup CatalogSalesColumns \cup CatalogReturnsColumns

ColumnOf(name) == CHOOSE c \in Columns : c.col = name

\* the draw a column's value comes from: the column itself when it is drawn
\* afresh, else the draw of the column it is computed or copied from
RECURSIVE Root(_)
Root(name) == IF ColumnOf(name).src = "" THEN name ELSE Root(ColumnOf(name).src)

\* the quantity draw of a sales table, which its money columns and the
\* quantity and money columns of its returns follow
QuantityDraw(tab) ==
    CASE tab = "store_sales" -> "ss_quantity"
      [] tab = "web_sales" -> "ws_quantity"
      [] tab = "catalog_sales" -> "cs_quantity"

QuantityDraws == {"ss_quantity", "ws_quantity", "cs_quantity"}

Draws == {c.col : c \in {x \in Columns : x.src = ""}} \cup QuantityDraws

RootOf == [name \in {c.col : c \in Columns} |-> Root(name)]

\* the columns of table tab that the followed draw feeds
View(tab, w) == {c \in Columns : c.tab = tab /\ RootOf[c.col] = w}

SalesOf(tab) ==
    CASE tab = "store_returns" -> "store_sales"
      [] tab = "web_returns" -> "web_sales"
      [] tab = "catalog_returns" -> "catalog_sales"

FactTables == {"store_sales", "web_sales", "catalog_sales",
               "store_returns", "web_returns", "catalog_returns"}

SalesTables == {"store_sales", "web_sales", "catalog_sales"}

ReturnsTables == FactTables \ SalesTables

\* ---- the dimension generators: S = [gd |-> generated_data, dk |-> dimension_keys,
\*      err |-> a read of a missing pool raised] ----
Table(n, rec) == [n |-> n, rec |-> rec]

SetTable(S, name, n) == [S EXCEPT !.gd = Put(S.gd, name, Table(n, NoRec))]

SetKeys(S, name, n) == [S EXCEPT !.dk = Put(S.dk, name, 1..n)]

\* self.dimension_keys[name] is read: KeyError when the pool is missing
Reading(S, names) == IF names \subseteq DOMAIN S.dk THEN S ELSE [S EXCEPT !.err = TRUE]

generate_date_dimension(S) == SetKeys(SetTable(S, "date_dim", NumDays), "date_dim", NumDays)

generate_customer_demographics(S) ==
    SetKeys(SetTable(S, "customer_demographics", NumCustomerDemographics),
            "customer_demographics", NumCustomerDemographics)

generate_customer_addresses(S) ==
    LET n == NumRegions * (NumCustomers \div 4)
    IN  SetKeys(SetTable(S, "customer_address", n), "customer_address", n)

generate_warehouses(S) == SetKeys(SetTable(S, "warehouse", NumWarehouses), "warehouse", NumWarehouses)

generate_stores(S) == SetKeys(SetTable(S, "store", NumStores), "store", NumStores)

generate_items(S) == SetKeys(SetTable(S, "item", NumItems), "item", NumItems)

generate_customers(S) ==
    LET S1 == IF "customer_address" \notin DOMAIN S.gd THEN generate_customer_addresses(S) ELSE S
        S2 == IF "customer_demographics" \notin DOMAIN S1.gd
              THEN generate_customer_demographics(S1) ELSE S1
        S3 == IF NumCustomers > 0
              THEN Reading(S2, {"customer_demographics", "customer_address", "date_dim"}) ELSE S2
    IN  IF S3.err THEN S3
        ELSE SetKeys(SetTable(S3, "customer", NumCustomers), "customer", NumCustomers)

\* ship_mode, time_dim, reason, income_band, household_demographics, web_site:
\* the key pools are set, generated_data is not
generate_additional_dimensions(S) ==
    LET S1 == SetKeys(SetKeys(SetKeys(SetKeys(S, "ship_mode", NumShipModes),
                  "time_dim", NumTimes), "reason", NumReasons), "income_band", NumIncomeBands)
        S2 == SetKeys(S1, "household_demographics", NumHouseholdDemographics)
        S3 == IF NumWebSites > 0 THEN Reading(S2, {"date_dim"}) ELSE S2
    IN  IF S3.err THEN S3 ELSE SetKeys(S3, "web_site", NumWebSites)

generate_call_centers(S) ==
    LET S1 == Reading(S, {"date_dim"})
    IN  IF S1.err THEN S1 ELSE SetKeys(SetTable(S1, "call_center", NumRegions), "call_center", NumRegions)

\* _date_to_sk returns 1 without a date dimension, so no pool read can raise
generate_promotions(S) == SetKeys(SetTable(S, "promotion", NumPromotions), "promotion", NumPromotions)

generate_inventory(S) ==
    LET S1 == IF "store" \notin DOMAIN S.gd THEN generate_stores(S) ELSE S
        S2 == IF "item" \notin DOMAIN S1.gd THEN generate_items(S1) ELSE S1
        S3 == IF "warehouse" \notin DOMAIN S2.gd THEN generate_warehouses(S2) ELSE S2
        S4 == IF "date_dim" \notin DOMAIN S3.gd THEN generate_date_dimension(S3) ELSE S3
        n  == Min(25000, Min(10, Cardinality(S4.dk["date_dim"])) * Cardinality(S4.dk["warehouse"])
                           * Min(500, Cardinality(S4.dk["item"])))
    IN  SetTable(S4, "inventory", n)

generate_web_pages(S) ==
    LET S1 == Reading(S, {"date_dim"})
    IN  IF S1.err THEN S1 ELSE SetKeys(SetTable(S1, "web_page", NumWebPages), "web_page", NumWebPages)

generate_catalog_pages(S) ==
    LET S1 == Reading(S, {"date_dim"})
    IN  IF S1.err THEN S1
        ELSE SetKeys(SetTable(S1, "catalog_page", NumCatalogPages), "catalog_page", NumCatalogPages)

\* tables_to_generate of write_to_files, full mode
FullOrder ==
    << "date_dim", "customer_demographics", "customer_address", "warehouse", "store", "item",
       "customer", "additional_dimensions", "call_center", "promotion", "inventory",
       "web_page", "catalog_page", "store_sales", "web_sales", "catalog_sales",
       "store_returns", "web_returns", "catalog_returns" >>

DimensionGenerator(name, S) ==
    CASE name = "date_dim" -> generate_date_dimension(S)
      [] name = "customer_demographics" -> generate_customer_demographics(S)
      [] name = "customer_address" -> generate_customer_addresses(S)
      [] name = "warehouse" -> generate_warehouses(S)
      [] name = "store" -> generate_stores(S)
      [] name = "item" -> generate_items(S)
      [] name = "customer" -> generate_customers(S)
      [] name = "additional_dimensions" -> generate_additional_dimensions(S)
      [] name = "call_center" -> generate_call_centers(S)
      [] name = "promotion" -> generate_promotions(S)
      [] name = "inventory" -> generate_inventory(S)
      [] name = "web_page" -> generate_web_pages(S)
      [] name = "catalog_page" -> generate_catalog_pages(S)

\* ---- the fact generators ----
\* the outcomes of the random draw behind the freshly drawn column c
RootDraw(c, date_sk, store_sk, dk) ==
    CASE c.how = "choice" -> {{k} : k \in dk[c.dim]}
      [] c.how = "choice_opt" -> {{k} : k \in dk[c.dim]} \cup {{}}
      [] c.how = "randint_opt" -> {{k} : k \in c.lo..c.hi} \cup {{}}
      [] c.how = "none" -> {{}}
      [] c.how = "loopdate" -> {{date_sk}}
      [] c.how = "loopstore" -> {{store_sk}}

\* the value of column c, given the outcome v of the followed draw, the
\* outcome o of the column's own random.randint and the originating sale
ColumnValue(c, v, o, sale) ==
    CASE c.src = "" -> v
      [] c.how = "var" -> v
      [] c.how = "offset" -> {x + o : x \in v}
      [] c.how = "copy" -> sale[c.src]
      [] c.how = "sale_offset" -> {x + o : x \in sale[c.src]}

\* the foreign-key columns in view of one appended record of table tab
ForeignKeyRows(tab, w, date_sk, store_sk, sale, dk) ==
    LET view  == View(tab, w)
        roots == {c \in view : c.src = ""}
        offs  == {c \in view : c.how \in {"offset", "sale_offset"}}
        vs    == IF roots = {} THEN {{}}
                 ELSE RootDraw(CHOOSE c \in roots : TRUE, date_sk, store_sk, dk)
        os    == IF offs = {} THEN {0}
                 ELSE LET c == CHOOSE x \in offs : TRUE IN c.lo..c.hi
    IN  {[name \in {c.col : c \in view} |-> ColumnValue(ColumnOf(name), v, o, sale)] :
            v \in vs, o \in os}

\* outcomes of the continuous draws, in cents and per cent
PriceDraws == {800, 1999}            \* i_current_price: round(uniform(min_price, max_price), 2)
WholesalePctDraws == {40, 70}        \* i_wholesale_cost: current_price * uniform(0.4, 0.7)
TaxRateDraws == {500, 1200}          \* s_tax_precentage * 10000: uniform(0.05, 0.12)

DiscountPctDraws(tab) ==
    CASE tab = "store_sales" -> {0, 15, 30}
      [] tab = "web_sales" -> {0, 15}
      [] tab = "catalog_sales" -> {0, 20}

Quantities(tab) ==
    CASE tab = "store_sales" -> 1..5
      [] tab = "web_sales" -> 1..3
      [] tab = "catalog_sales" -> 1..4

\* coupon_amt of a store sale; the shipping cost of a web or catalog sale
CouponDraws == {0, 137, 500}

ShipCostDraws(tab) == IF tab = "web_sales" THEN {500, 2500} ELSE {800, 3500}

TaxRates(tab) ==
    CASE tab = "store_sales" -> TaxRateDraws
      [] tab = "web_sales" -> {WebTaxRate}
      [] tab = "catalog_sales" -> {CatalogTaxRate}

Measure(q, es, tx, np) == [quantity |-> q, ext_sales_price |-> es, ext_tax |-> tx, net_profit |-> np]

\* quantity, ext_sales_price, ext_tax and net_profit of one appended sale
SaleMeasures(tab) ==
    UNION { UNION { UNION { UNION {
        LET ext_sales_price    == sales_price * quantity
            ext_wholesale_cost == wholesale_cost * quantity
        IN  { Measure(quantity, ext_sales_price, ext_tax,
                      IF tab = "store_sales"
                      THEN (ext_sales_price - extra) - ext_wholesale_cost
                      ELSE ((ext_sales_price + extra) - ext_wholesale_cost) - extra) :
                ext_tax \in UNION {Round2(ext_sales_price * rate, 10000) : rate \in TaxRates(tab)},
                extra \in IF tab = "store_sales" THEN CouponDraws ELSE ShipCostDraws(tab) }
        : quantity \in Quantities(tab) }
        : sales_price \in UNION {Round2(list_price * (100 - pct), 100) : pct \in DiscountPctDraws(tab)} }
        : wholesale_cost \in UNION {Round2(list_price * pct, 100) : pct \in WholesalePctDraws} }
        : list_price \in PriceDraws }

\* a return quantity drawn without regard to the quantity sold
ReturnQuantitiesUpToFive(quantity) == 1..5

\* return_qty = random.randint(1, sale quantity)
ReturnQuantities(quantity) == 1..quantity

\* round(amount * ratio, 2) with ratio = return_qty / quantity
Scaled(amount, return_qty, quantity) == Round2(amount * return_qty, quantity)

ReturnMeasures(sale) ==
    UNION { { [return_quantity |-> return_qty, return_amt |-> amt, return_tax |-> tax,
               net_loss |-> loss] :
                amt \in Scaled(sale.ext_sales_price, return_qty, sale.quantity),
                tax \in Scaled(sale.ext_tax, return_qty, sale.quantity),
                loss \in Scaled(sale.net_profit, return_qty, sale.quantity) }
            : return_qty \in ReturnQuantities(sale.quantity) }

\* the record one iteration of a sales generator appends
SaleRows(tab, w, date_sk, store_sk, dk) ==
    IF w = QuantityDraw(tab) THEN SaleMeasures(tab)
    ELSE ForeignKeyRows(tab, w, date_sk, store_sk, NoRec, dk)

\* the record one iteration of a returns generator appends for the sampled sale
ReturnRows(tab, w, sale, dk) ==
    IF w = QuantityDraw(SalesOf(tab)) THEN ReturnMeasures(sale)
    ELSE ForeignKeyRows(tab, w, 0, 0, sale, dk)

Idle == [tab |-> "", n |-> 0, rec |-> NoRec, chosen |-> FALSE, d |-> 0, s |-> 0, t |-> 0, todo |-> 0]

\* d, s, t: the sample date, the store and the transactions appended for that
\* store (generate_store_sales); todo: the iterations of the other loops
Running(tab, todo) ==
    [tab |-> tab, n |-> 0, rec |-> NoRec, chosen |-> FALSE, d |-> 1, s |-> 1, t |-> 0,
     todo |-> todo]

State == [gd |-> generated_data, dk |-> dimension_keys, err |-> gen_error]

\* the dependencies a fact generator materialises before its loop
Dependencies(tab, S) ==
    CASE tab = "store_sales" ->
            LET S1 == IF "date_dim" \notin DOMAIN S.gd THEN generate_date_dimension(S) ELSE S
                S2 == IF "store" \notin DOMAIN S1.gd THEN generate_stores(S1) ELSE S1
                S3 == IF "item" \notin DOMAIN S2.gd THEN generate_items(S2) ELSE S2
            IN  IF "customer" \notin DOMAIN S3.gd THEN generate_customers(S3) ELSE S3
      [] tab = "web_sales" ->
            LET S1 == IF "web_site" \notin DOMAIN S.gd THEN generate_additional_dimensions(S) ELSE S
            IN  IF S1.err THEN S1
                ELSE IF "web_page" \notin DOMAIN S1.gd THEN generate_web_pages(S1) ELSE S1
      [] tab = "catalog_sales" ->
            IF "catalog_page" \notin DOMAIN S.gd THEN generate_catalog_pages(S) ELSE S
      [] OTHER -> S

\* sample_dates of generate_store_sales: the d_date_sk of every 7th date record
SampleDates(S) == {k \in S.dk["date_dim"] : (k - 1) % SampleEvery = 0}

NthSampleDate(d) == SampleEvery * (d - 1) + 1

\* the number of iterations of the generator's loop (store_sales loops over
\* dates and stores instead)
Iterations(tab, S) ==
    CASE tab = "store_sales" -> 0
      [] tab = "web_sales" ->
            Min(WebSalesCap, Cardinality(S.dk["customer"]) \div WebPerCustomers)
      [] tab = "catalog_sales" ->
            Min(CatalogSalesCap, Cardinality(S.dk["customer"]) \div CatalogPerCustomers)
      [] tab = "store_returns" ->
            Min((S.gd["store_sales"].n * StoreReturnPct) \div 100, S.gd["store_sales"].n)
      [] tab = "web_returns" ->
            Min((S.gd["web_sales"].n * WebReturnPct) \div 100, S.gd["web_sales"].n)
      [] tab = "catalog_returns" ->
            Min((S.gd["catalog_sales"].n * CatalogReturnPct) \div 100,
                S.gd["catalog_sales"].n)

\* ---- write_to_files, one step per generator call or loop iteration ----
Current == IF gen_pc <= Len(FullOrder) THEN FullOrder[gen_pc] ELSE "done"

GenerateDimension ==
    /\ ~gen_error /\ gen_loop = Idle
    /\ Current \notin FactTables \cup {"done"}
    /\ LET S == DimensionGenerator(Current, State)
       IN  /\ generated_data' = S.gd
           /\ dimension_keys' = S.dk
           /\ gen_error' = S.err
    /\ gen_pc' = gen_pc + 1
    /\ UNCHANGED <<watch, gen_loop, notGen>>

BeginFact ==
    /\ ~gen_error /\ gen_loop = Idle
    /\ Current \in FactTables
    /\ Current \in ReturnsTables => SalesOf(Current) \in DOMAIN generated_data
    /\ LET S == Dependencies(Current, State)
       IN  /\ generated_data' = S.gd
           /\ dimension_keys' = S.dk
           /\ gen_error' = S.err
           /\ gen_loop' = IF S.err THEN Idle ELSE Running(Current, Iterations(Current, S))
    /\ UNCHANGED <<watch, gen_pc, notGen>>

LoopDone ==
    IF gen_loop.tab = "store_sales"
    THEN \/ gen_loop.d > Cardinality(SampleDates(State))
         \/ Cardinality(dimension_keys["store"]) = 0
    ELSE gen_loop.n >= gen_loop.todo

\* the record kept for the table: the one of the chosen iteration; the last
\* iteration is chosen when none was before
Choose(rows, last) ==
    IF gen_loop.chosen THEN {[rec |-> gen_loop.rec, chosen |-> TRUE]}
    ELSE {[rec |-> r, chosen |-> TRUE] : r \in rows}
            \cup (IF last THEN {} ELSE {[rec |-> NoRec, chosen |-> FALSE]})

\* one store transaction of the current date and store; more: the store has
\* further transactions on that date (store_transactions >= 1 is not computed:
\* any volume from 1 to MaxTx is allowed)
AppendStoreSale ==
    /\ gen_loop.tab = "store_sales" /\ ~LoopDone
    /\ \E more \in BOOLEAN :
          LET n      == gen_loop.n + 1
              dates  == Cardinality(SampleDates(State))
              sameSt == more /\ gen_loop.t + 1 < MaxTx
              lastSt == gen_loop.s >= Cardinality(dimension_keys["store"])
              d      == IF n >= StoreSalesCap THEN dates + 1
                        ELSE IF sameSt \/ ~lastSt THEN gen_loop.d ELSE gen_loop.d + 1
              rows   == SaleRows("store_sales", watch, NthSampleDate(gen_loop.d), gen_loop.s,
                                 dimension_keys)
          IN  \E c \in Choose(rows, d > dates) :
                gen_loop' =
                  [gen_loop EXCEPT
                     !.n = n, !.rec = c.rec, !.chosen = c.chosen, !.d = d,
                     !.t = IF sameSt THEN @ + 1 ELSE 0,
                     !.s = IF n >= StoreSalesCap \/ sameSt THEN @ ELSE IF lastSt THEN 1 ELSE @ + 1]
    /\ UNCHANGED <<watch, gen_pc, generated_data, dimension_keys, gen_error, notGen>>

\* one iteration of generate_web_sales or generate_catalog_sales
AppendSale ==
    /\ gen_loop.tab \in {"web_sales", "catalog_sales"} /\ ~LoopDone
    /\ \E c \in Choose(SaleRows(gen_loop.tab, watch, 0, 0, dimension_keys),
                       gen_loop.n + 1 >= gen_loop.todo) :
          gen_loop' = [gen_loop EXCEPT !.n = @ + 1, !.rec = c.rec, !.chosen = c.chosen]
    /\ UNCHANGED <<watch, gen_pc, generated_data, dimension_keys, gen_error, notGen>>

\* one iteration of a returns generator over the sampled sales
AppendReturn ==
    /\ gen_loop.tab \in ReturnsTables /\ ~LoopDone
    /\ \E c \in Choose(ReturnRows(gen_loop.tab, watch,
                                  generated_data[SalesOf(gen_loop.tab)].rec, dimension_keys),
                       gen_loop.n + 1 >= gen_loop.todo) :
          gen_loop' = [gen_loop EXCEPT !.n = @ + 1, !.rec = c.rec, !.chosen = c.chosen]
    /\ UNCHANGED <<watch, gen_pc, generated_data, dimension_keys, gen_error, notGen>>

\* self.generated_data[table] = the list; write_to_files goes on to the next table
FinishFact ==
    /\ gen_loop.tab \in FactTables /\ LoopDone
    /\ generated_data' = Put(generated_data, gen_loop.tab, Table(gen_loop.n, gen_loop.rec))
    /\ gen_loop' = Idle
    /\ gen_pc' = gen_pc + 1
    /\ UNCHANGED <<watch, dimension_keys, gen_error, notGen>>

GenInit ==
    /\ watch \in Draws
    /\ gen_pc = 1
    /\ generated_data = << >>
    /\ dimension_keys = << >>
    /\ gen_loop = Idle
    /\ gen_error = FALSE
    /\ TableOff
    /\ LoadOff
    /\ SqlOff
    /\ RowOff
    /\ CreateOff
    /\ CopyOff
    /\ TestOff
    /\ CliOff
    /\ ResolveOff
    /\ UserOff
    /\ CatalogOff

GenNext ==
    \/ GenerateDimension
    \/ BeginFact
    \/ AppendStoreSale
    \/ AppendSale
    \/ AppendReturn
    \/ FinishFact

SpecGen == GenInit /\ [][GenNext]_vars

(***************************************************************************)
(* Claims about the generator                                              *)
(***************************************************************************)
GenDone == gen_pc > Len(FullOrder)

\* the record kept for a fact table holding records, while it is generated or after
KeptRecords ==
    {[tab |-> tab, rec |-> generated_data[tab].rec] :
        tab \in {t \in FactTables \cap DOMAIN generated_data : generated_data[t].n > 0}}
    \cup (IF gen_loop.chosen THEN {[tab |-> gen_loop.tab, rec |-> gen_loop.rec]} ELSE {})

ForeignKeysOf(rec) == {name \in DOMAIN rec : name \in DOMAIN RootOf}

\* C1: after a full-mode run every non-null foreign key of every record of the
\* six fact tables is a member of the key pool of the dimension it references.
C1_ForeignKeysInPools ==
    GenDone =>
        \A tab \in FactTables :
            generated_data[tab].n > 0 =>
                \A name \in ForeignKeysOf(generated_data[tab].rec) :
                    generated_data[tab].rec[name] \subseteq dimension_keys[ColumnOf(name).dim]

\* a return holds its quantity and money columns scaled from the sale it came from
ScaledWithinHalfCent(part, whole, return_qty, quantity) ==
    /\ 2 * (part * quantity - whole * return_qty) <= quantity
    /\ 2 * (whole * return_qty - part * quantity) <= quantity

ReturnFollowsSale(ret, sale) ==
    /\ 0 < ret.return_quantity
    /\ ret.return_quantity <= sale.quantity
    /\ ScaledWithinHalfCent(ret.return_amt, sale.ext_sales_price, ret.return_quantity, sale.quantity)
    /\ ScaledWithinHalfCent(ret.return_tax, sale.ext_tax, ret.return_quantity, sale.quantity)
    /\ ScaledWithinHalfCent(ret.net_loss, sale.net_profit, ret.return_quantity, sale.quantity)

\* C8: for every record of the three returns tables, 0 < return_quantity <= the
\* quantity of the originating sale, and return amount, return tax and net loss are
\* the sale's extended sales price, extended tax and net profit times
\* return_quantity / quantity, within half a cent.
C8_ReturnsScaleWithQuantity ==
    \A k \in KeptRecords :
        (k.tab \in ReturnsTables /\ watch = QuantityDraw(SalesOf(k.tab))) =>
            ReturnFollowsSale(k.rec, generated_data[SalesOf(k.tab)].rec)

\* a partial return whose scaled tax does not fall on a whole cent
C8_Witness ==
    /\ GenDone
    /\ \E tab \in ReturnsTables :
        /\ watch = QuantityDraw(SalesOf(tab))
        /\ generated_data[tab].n > 0
        /\ LET ret == generated_data[tab].rec
               sale == generated_data[SalesOf(tab)].rec
           IN  /\ ret.return_quantity < sale.quantity
               /\ (sale.ext_tax * ret.return_quantity) % sale.quantity # 0
               /\ sale.net_profit < 0

(***************************************************************************)
(* GENERATOR, any routine called on a fresh generator                      *)
(*                                                                         *)
(* gen_loop is the list of the routines called so far, gen_pc its length.  *)
(***************************************************************************)
\* the longest sequence of calls
MaxCalls == 2

Routines == {FullOrder[i] : i \in DOMAIN FullOrder}

\* the key pools the loop of a fact generator draws from with random.choice
PoolsRead(tab) ==
    {c.dim : c \in {x \in Columns : x.tab = tab /\ x.how \in {"choice", "choice_opt"}}}

\* the records a fact generator appends; tx: store_transactions of every store
\* and date (max(1, ...))
Appended(tab, S, tx) ==
    IF tab = "store_sales"
    THEN Min(StoreSalesCap, Cardinality(SampleDates(S)) * S.gd["store"].n * tx)
    ELSE Iterations(tab, S)

\* a fact generator, whole: the dependencies it materialises, len(
\* self.dimension_keys["customer"]) of the web and catalog sales, the loop and
\* self.generated_data[tab] = records
RECURSIVE FactGenerator(_, _, _)
FactGenerator(tab, S, tx) ==
    LET S0 == IF tab \in ReturnsTables /\ SalesOf(tab) \notin DOMAIN S.gd
              THEN FactGenerator(SalesOf(tab), S, tx) ELSE S
        S1 == IF S0.err THEN S0 ELSE Dependencies(tab, S0)
        S2 == IF S1.err \/ tab \notin {"web_sales", "catalog_sales"} THEN S1
              ELSE Reading(S1, {"customer"})
    IN  IF S2.err THEN S2
        ELSE LET n  == Appended(tab, S2, tx)
                 S3 == IF n > 0 THEN Reading(S2, PoolsRead(tab)) ELSE S2
             IN  IF S3.err THEN S3 ELSE SetTable(S3, tab, n)

\* generator.generate_<name>() on the generator as it is
CallRoutine ==
    /\ gen_pc < MaxCalls
    /\ ~gen_error
    /\ \E name \in Routines, tx \in 1..MaxTx :
          LET S == IF name \in FactTables THEN FactGenerator(name, State, tx)
                   ELSE DimensionGenerator(name, State)
          IN  /\ generated_data' = S.gd
              /\ dimension_keys' = S.dk
              /\ gen_error' = S.err
              /\ gen_loop' = Append(gen_loop, name)
    /\ gen_pc' = gen_pc + 1
    /\ UNCHANGED <<watch, notGen>>

\* SyntheticDataGenerator(config): empty caches
FreshInit ==
    /\ GenOff
    /\ TableOff
    /\ LoadOff
    /\ SqlOff
    /\ RowOff
    /\ CreateOff
    /\ CopyOff
    /\ TestOff
    /\ CliOff
    /\ ResolveOff
    /\ UserOff
    /\ CatalogOff

FreshNext ==
    \/ CallRoutine

SpecFresh == FreshInit /\ [][FreshNext]_vars

\* the routines the claim names
LazyRoutines ==
    {"customer", "promotion", "store_sales", "web_sales", "catalog_sales",
     "store_returns", "web_returns", "catalog_returns"}

\* C21: every generator routine, called on a fresh generator in any order,
\* materialises each absent dimension it depends on before it reads that
\* dimension's key pool: generate_customers, generate_promotions, the three
\* sales generators and the three returns generators never raise for a missing
\* pool, also when called first.
C21_DependenciesMaterialised ==
    (gen_loop # << >> /\ gen_loop[Len(gen_loop)] \in LazyRoutines) => ~gen_error

(***************************************************************************)
(* BULK LOADER, ONE TABLE (DataLoader._load_table_direct)                  *)
(*                                                                         *)
(* A row is named by the number of the line it was read from.  A list of   *)
(* rows (batch_data, the rows a session holds) is kept as its runs of      *)
(* consecutive line numbers, in list order: <<[lo |-> 1, hi |-> 1000]>> is *)
(* the list of the rows 1, 2, ..., 1000.                                   *)
(*                                                                         *)
(* The database is the connection provider's: a statement that raises      *)
(* leaves no row behind (statement-level atomicity, also for the           *)
(* multi-row insert), and a row the table rejects is rejected every time.  *)
(* The connection may be lost while the table is loaded; every call on a   *)
(* lost connection, commit included, raises oracledb.Error.                *)
(***************************************************************************)
batch_size == 1000

\* the longest data file
MaxLines == 1002

NoRows == << >>

Run(lo, hi) == [lo |-> lo, hi |-> hi]

AppendRun(list, run) ==
    IF list # << >> /\ list[Len(list)].hi + 1 = run.lo
    THEN [list EXCEPT ![Len(list)].hi = run.hi]
    ELSE Append(list, run)

\* list.append(row)
AppendRow(list, row) == AppendRun(list, Run(row, row))

\* the rows of list followed by the rows of more
RECURSIVE Extend(_, _)
Extend(list, more) ==
    IF more = << >> THEN list ELSE Extend(AppendRun(list, Head(more)), Tail(more))

\* len(list)
RECURSIVE Size(_)
Size(list) ==
    IF list = << >> THEN 0 ELSE (Head(list).hi - Head(list).lo + 1) + Size(Tail(list))

\* list[i - 1]
RECURSIVE NthRow(_, _)
NthRow(list, i) ==
    LET n == Head(list).hi - Head(list).lo + 1
    IN  IF i <= n THEN Head(list).lo + i - 1 ELSE NthRow(Tail(list), i - n)

\* how many times the list holds the row
Times(list, row) == Cardinality({i \in DOMAIN list : list[i].lo <= row /\ row <= list[i].hi})

\* ---- the data file ----
FileLengths == {0, 1, batch_size, MaxLines}

\* lines that may be blank, and rows the destination table may reject
BlankCandidates == {2}
BadCandidates == {1, 501, batch_size + 1}

DataFiles ==
    {f \in [lines : FileLengths, blank : SUBSET BlankCandidates,
            bad : SUBSET BadCandidates, bulk_fails : BOOLEAN] :
        (f.blank \cup f.bad) \subseteq 1..f.lines}

\* ---- the session (database.py get_connection, oracledb cursor) ----
Closed == [open |-> FALSE, pending |-> NoRows, committed |-> NoRows, commits |-> 0]

\* connection.autocommit = True
autocommit == TRUE

\* oracledb.connect(...)
Connected(db) == [db EXCEPT !.open = TRUE]

\* connection.close(): what was not committed is rolled back
Close(db) == [db EXCEPT !.open = FALSE, !.pending = NoRows]

Flushed(db) == [db EXCEPT !.committed = Extend(@, db.pending), !.pending = NoRows]

\* conn.commit()
Commit(db) == [Flushed(db) EXCEPT !.commits = @ + 1]

\* an insert that succeeded
Insert(db, rows) ==
    LET held == [db EXCEPT !.pending = Extend(@, rows)]
    IN  IF autocommit THEN Flushed(held) ELSE held

\* cursor.execute(insert_sql, row_data) raises oracledb.Error
ExecuteRaises(row) == ~session.open \/ row \in data_file.bad

\* cursor.executemany(insert_sql, batch_data) raises oracledb.Error
ExecuteManyRaises(batch) ==
    \/ ~session.open
    \/ data_file.bulk_fails
    \/ \E row \in data_file.bad : Times(batch, row) > 0

\* ---- _load_table_direct ----
\* return value: the with blocks close the connection on the way out
Return(value) ==
    /\ tl_pc' = "done"
    /\ tl_result' = value
    /\ session' = Close(session)

\* with db_manager.get_connection() as conn: oracledb.connect raises, or connects
Connect ==
    /\ tl_pc = "connect"
    /\ \/ /\ session' = Connected(session)
          /\ tl_pc' = "columns"
          /\ UNCHANGED tl_result
       \/ Return(FALSE)
    /\ UNCHANGED <<data_file, line_num, batch_data, retry_pos, rows_inserted, notTable>>

\* the catalog query: columns found, no column (no such table), or oracledb.Error
FetchColumns ==
    /\ tl_pc = "columns"
    /\ \E found \in {"columns", "none", "error"} :
        IF found = "columns"
        THEN /\ tl_pc' = "read"
             /\ UNCHANGED <<session, tl_result>>
        ELSE Return(FALSE)
    /\ UNCHANGED <<data_file, line_num, batch_data, retry_pos, rows_inserted, notTable>>

\* the loop of the fallback goes on with the next row, whether the row failed or not
NextRetryAfterBreak(pos, size, failed) == IF failed THEN size + 1 ELSE pos + 1

NextRetry(pos, size, failed) == pos + 1

\* try: executemany, rows_inserted += len(batch_data), commit; batch_data = []
\* except oracledb.Error: the fallback starts with the first row of the batch
Flush(batch, then) ==
    IF ExecuteManyRaises(batch)
    THEN /\ batch_data' = batch
         /\ retry_pos' = 1
         /\ tl_pc' = IF then = "read" THEN "retry" ELSE "retry_final"
         /\ UNCHANGED <<rows_inserted, session>>
    ELSE /\ session' = Commit(Insert(session, batch))
         /\ rows_inserted' = rows_inserted + Size(batch)
         /\ batch_data' = NoRows
         /\ retry_pos' = 0
         /\ tl_pc' = then

\* if len(batch_data) >= batch_size
FullBeyondBatchSize(batch) == Size(batch) > batch_size

Full(batch) == Size(batch) >= batch_size

\* one iteration of: for line_num, line in enumerate(f, 1)
ReadLine ==
    /\ tl_pc = "read"
    /\ line_num < data_file.lines
    /\ line_num' = line_num + 1
    /\ IF line_num' \in data_file.blank
       THEN UNCHANGED <<batch_data, retry_pos, rows_inserted, session, tl_pc>>
       ELSE LET batch == AppendRow(batch_data, line_num')
            IN  IF Full(batch)
                THEN Flush(batch, "read")
                ELSE /\ batch_data' = batch
                     /\ UNCHANGED <<retry_pos, rows_inserted, session, tl_pc>>
    /\ UNCHANGED <<data_file, tl_result, notTable>>

\* one iteration of: for row_data in batch_data (the fallback), and after the
\* last one conn.commit() and batch_data = []
RetryRow ==
    /\ tl_pc \in {"retry", "retry_final"}
    /\ session.open
    /\ LET row == NthRow(batch_data, retry_pos)
           failed == ExecuteRaises(row)
           next == NextRetry(retry_pos, Size(batch_data), failed)
           db == IF failed THEN session ELSE Insert(session, <<Run(row, row)>>)
       IN  /\ rows_inserted' = IF failed THEN rows_inserted ELSE rows_inserted + 1
           /\ IF next > Size(batch_data)
              THEN /\ session' = Commit(db)
                   /\ batch_data' = NoRows
                   /\ retry_pos' = 0
                   /\ tl_pc' = IF tl_pc = "retry" THEN "read" ELSE "finish"
              ELSE /\ session' = db
                   /\ retry_pos' = next
                   /\ UNCHANGED <<batch_data, tl_pc>>
    /\ UNCHANGED <<data_file, line_num, tl_result, notTable>>

\* the rest of the fallback on a lost connection: cursor.execute raises for
\* every row left and is passed over, then conn.commit() raises and the function
\* is left through except Exception
RetryWithoutConnection ==
    /\ tl_pc \in {"retry", "retry_final"}
    /\ ~session.open
    /\ Return(FALSE)
    /\ UNCHANGED <<data_file, line_num, batch_data, retry_pos, rows_inserted, notTable>>

\* after the loop: if batch_data: the final batch
EndOfFile ==
    /\ tl_pc = "read"
    /\ line_num = data_file.lines
    /\ IF batch_data # NoRows
       THEN Flush(batch_data, "finish")
       ELSE /\ tl_pc' = "finish"
            /\ UNCHANGED <<batch_data, retry_pos, rows_inserted, session>>
    /\ UNCHANGED <<data_file, line_num, tl_result, notTable>>

\* a load that reports success whatever it inserted
LoadedAnyway(rows) == TRUE

\* return rows_inserted > 0
Loaded(rows) == rows > 0

\* conn.commit(); return rows_inserted > 0; a commit that raises leaves the
\* function through except Exception
Finish ==
    /\ tl_pc = "finish"
    /\ IF session.open
       THEN /\ tl_pc' = "done"
            /\ tl_result' = Loaded(rows_inserted)
            /\ session' = Close(Commit(session))
       ELSE Return(FALSE)
    /\ UNCHANGED <<data_file, line_num, batch_data, retry_pos, rows_inserted, notTable>>

\* the connection is lost while the table is loaded
LoseConnection ==
    /\ tl_pc \in {"read", "retry", "retry_final", "finish"}
    /\ session.open
    /\ session' = Close(session)
    /\ UNCHANGED <<data_file, tl_pc, tl_result, line_num, batch_data, retry_pos,
                   rows_inserted, notTable>>

TableInit ==
    /\ data_file \in DataFiles
    /\ tl_pc = "connect"
    /\ line_num = 0
    /\ batch_data = NoRows
    /\ retry_pos = 0
    /\ rows_inserted = 0
    /\ session = Closed
    /\ tl_result = "none"
    /\ GenOff
    /\ LoadOff
    /\ SqlOff
    /\ RowOff
    /\ CreateOff
    /\ CopyOff
    /\ TestOff
    /\ CliOff
    /\ ResolveOff
    /\ UserOff
    /\ CatalogOff

TableNext ==
    \/ Connect
    \/ FetchColumns
    \/ ReadLine
    \/ RetryRow
    \/ RetryWithoutConnection
    \/ EndOfFile
    \/ Finish
    \/ LoseConnection

SpecTable == TableInit /\ [][TableNext]_vars

(***************************************************************************)
(* Claims about the load of one table                                      *)
(***************************************************************************)
\* the rows that left batch_data: read, not blank, not waiting
BetweenBatches == tl_pc \in {"read", "finish", "done"} /\ batch_data = NoRows

RowsRead == {k \in 1..line_num : k \notin data_file.blank}

\* C2: when the multi-row insert of a batch fails, every row of the batch is
\* retried alone and only the rows that fail alone are skipped: once a batch is
\* done, each of its rows the table accepts is committed exactly once and counted,
\* each row it rejects is absent, and this goes on batch after batch (a 1000-row
\* batch whose row 501 alone is rejected leaves 999 rows, not zero).
C2_FallbackSkipsOnlyFailingRows ==
    BetweenBatches =>
        /\ session.pending = NoRows
        /\ \A k \in RowsRead :
            Times(session.committed, k) = IF k \in data_file.bad THEN 0 ELSE 1
        /\ rows_inserted = Cardinality(RowsRead \ data_file.bad)

\* the file of 1002 rows whose row 501 alone is rejected: the first batch fell
\* back and left 999 rows, the rows after it were loaded too
C2_Witness ==
    /\ tl_pc = "done"
    /\ data_file = [lines |-> MaxLines, blank |-> {}, bad |-> {501}, bulk_fails |-> FALSE]
    /\ session.commits >= 2
    /\ Cardinality({k \in 1..batch_size : Times(session.committed, k) = 1}) = batch_size - 1
    /\ Times(session.committed, 501) = 0
    /\ Times(session.committed, batch_size + 1) = 1
    /\ rows_inserted = MaxLines - 1

\* C26 as stated: the load of a table reports success iff at least one row
\* was inserted
C26_SuccessIffRowsInserted ==
    tl_pc = "done" => tl_result = (rows_inserted > 0)

\* C26: a load that reaches its end without an exception reports success iff
\* at least one row was inserted, so a file with no non-blank line, or whose
\* every row is rejected, is reported as failed although nothing raised; a load
\* that ends before (no connection, no column, an exception) reports failure
\* whatever it inserted; no load reports success without a row inserted
C26_SuccessIffRowsUnlessRaised ==
    /\ [](tl_pc = "done" /\ tl_result = TRUE => rows_inserted > 0)
    /\ [][(tl_pc = "finish" /\ session.open /\ tl_pc' = "done") =>
              tl_result' = (rows_inserted > 0)]_vars
    /\ [][(tl_pc # "done" /\ tl_pc' = "done" /\ ~(tl_pc = "finish" /\ session.open)) =>
              tl_result' = FALSE]_vars

\* the file of one row that the table rejects: the load ran to its end, the
\* final commit was made, no row was inserted and the load is reported as failed
C26_Witness ==
    /\ tl_pc = "done"
    /\ data_file = [lines |-> 1, blank |-> {}, bad |-> {1}, bulk_fails |-> FALSE]
    /\ session.commits = 2
    /\ rows_inserted = 0
    /\ tl_result = FALSE

\* the list holds each of its rows once, in the order of the file
Ascending(list) ==
    /\ \A i \in DOMAIN list : list[i].lo <= list[i].hi
    /\ \A i \in 1..(Len(list) - 1) : list[i].hi < list[i + 1].lo

\* how many rows of the list are lines lo..hi of the file
RECURSIVE Between(_, _, _)
Between(list, lo, hi) ==
    IF list = << >> THEN 0
    ELSE LET a == IF Head(list).lo > lo THEN Head(list).lo ELSE lo
             b == IF Head(list).hi < hi THEN Head(list).hi ELSE hi
         IN  (IF a <= b THEN b - a + 1 ELSE 0) + Between(Tail(list), lo, hi)

\* how many of the lines lo..hi are none of the lines given
Others(lo, hi, given) ==
    IF hi < lo THEN 0 ELSE (hi - lo + 1) - Cardinality({k \in given : lo <= k /\ k <= hi})

\* the first line of the batch that is open: the lines before it are the lines
\* of the batches that are done
FirstWaiting == IF batch_data = NoRows THEN line_num + 1 ELSE batch_data[1].lo

\* the batches it takes to hold n rows
BatchesOf(n) == (n + batch_size - 1) \div batch_size

\* C20: while a table is loaded every non-blank line read is in exactly one
\* batch (batch_data holds, once each, the non-blank lines read since the last
\* batch was done), no batch holds more than 1000 rows, the final partial batch
\* is flushed at end of file, a commit has followed every batch, after its
\* multi-row insert or after its row-by-row fallback, before the next batch
\* starts, and the rows of the batches that are done stay loaded (each row the
\* table accepts once, no other) when a later batch or the connection fails.
C20_EveryBatchCommitted ==
    /\ Size(batch_data) <= batch_size
    /\ Ascending(batch_data)
    /\ batch_data # NoRows => 1 <= FirstWaiting /\ batch_data[Len(batch_data)].hi <= line_num
    /\ \A k \in data_file.blank : Times(batch_data, k) = 0
    /\ Size(batch_data) = Others(FirstWaiting, line_num, data_file.blank)
    /\ tl_pc \in {"read", "retry_final"} =>
            Size(batch_data) = Others(1, line_num, data_file.blank) % batch_size
    /\ tl_pc = "retry" => Size(batch_data) = batch_size
    /\ tl_pc = "finish" => batch_data = NoRows /\ line_num = data_file.lines
    /\ tl_pc \in {"read", "retry", "retry_final", "finish"} =>
            session.commits = BatchesOf(Others(1, FirstWaiting - 1, data_file.blank))
    /\ Ascending(session.committed)
    /\ Between(session.committed, 1, FirstWaiting - 1) =
            Others(1, FirstWaiting - 1, data_file.blank \cup data_file.bad)
    /\ \A k \in data_file.blank \cup data_file.bad :
            k < FirstWaiting => Times(session.committed, k) = 0

\* the file of 1002 rows the table accepts: the first batch was committed, the
\* connection was lost before the final batch, the load failed and the rows of
\* the first batch are loaded
C20_Witness ==
    /\ tl_pc = "done"
    /\ tl_result = FALSE
    /\ data_file = [lines |-> MaxLines, blank |-> {}, bad |-> {}, bulk_fails |-> FALSE]
    /\ line_num = MaxLines
    /\ Size(batch_data) = MaxLines - batch_size
    /\ session.commits = 1
    /\ \A k \in 1..batch_size : Times(session.committed, k) = 1

(***************************************************************************)
(* TEXT: the str operations of Python that the schema tools and the loader *)
(* use, on strings of ASCII characters                                     *)
(***************************************************************************)
\* s[i - 1]
Char(s, i) == SubSeq(s, i, i)

\* s[i - 1:]
From(s, i) == SubSeq(s, i, Len(s))

LowerCase == "abcdefghijklmnopqrstuvwxyz"
UpperCase == "ABCDEFGHIJKLMNOPQRSTUVWXYZ"
Digits == "0123456789"

Chars(s) == {Char(s, i) : i \in 1..Len(s)}

\* the place of the character in the alphabet, 0 when it is not in it
Place(alphabet, c) ==
    IF c \in Chars(alphabet) THEN CHOOSE i \in 1..Len(alphabet) : Char(alphabet, i) = c ELSE 0

Whitespace == {" ", "\t", "\n", "\r", "\f"}

\* c.upper(), c.lower()
UpperChar(c) == IF Place(LowerCase, c) > 0 THEN Char(UpperCase, Place(LowerCase, c)) ELSE c
LowerChar(c) == IF Place(UpperCase, c) > 0 THEN Char(LowerCase, Place(UpperCase, c)) ELSE c

\* s.upper(), a half of the string at a time
RECURSIVE Upper(_)
Upper(s) ==
    IF Len(s) <= 1 THEN UpperChar(s)
    ELSE Upper(SubSeq(s, 1, Len(s) \div 2)) \o Upper(From(s, Len(s) \div 2 + 1))

\* s.lower()
RECURSIVE Lower(_)
Lower(s) ==
    IF Len(s) <= 1 THEN LowerChar(s)
    ELSE Lower(SubSeq(s, 1, Len(s) \div 2)) \o Lower(From(s, Len(s) \div 2 + 1))

\* s.startswith(p), s.endswith(p), sub in s
StartsWith(s, p) == Len(s) >= Len(p) /\ SubSeq(s, 1, Len(p)) = p
EndsWith(s, p) == Len(s) >= Len(p) /\ SubSeq(s, Len(s) - Len(p) + 1, Len(s)) = p
Contains(s, sub) == \E i \in 1..(Len(s) - Len(sub) + 1) : SubSeq(s, i, i + Len(sub) - 1) = sub

\* s.strip()
Strip(s) ==
    LET kept == {i \in 1..Len(s) : Char(s, i) \notin Whitespace}
    IN  IF kept = {} THEN ""
        ELSE SubSeq(s, CHOOSE i \in kept : \A j \in kept : i <= j,
                       CHOOSE i \in kept : \A j \in kept : j <= i)

\* the least position of a set of positions, 0 when it is empty
Least(positions) ==
    IF positions = {} THEN 0 ELSE CHOOSE i \in positions : \A j \in positions : i <= j

\* s.find(c) + 1 from position i on, 0 when absent
Find(s, c, i) == Least({j \in i..Len(s) : Char(s, j) = c})

\* s.split(sep) for a separator of one character
RECURSIVE Split(_, _)
Split(s, sep) ==
    LET i == Find(s, sep, 1)
    IN  IF i = 0 THEN <<s>> ELSE <<SubSeq(s, 1, i - 1)>> \o Split(From(s, i + 1), sep)

\* sep.join(parts)
RECURSIVE Join(_, _)
Join(parts, sep) ==
    IF parts = << >> THEN ""
    ELSE IF Len(parts) = 1 THEN parts[1]
    ELSE parts[1] \o sep \o Join(Tail(parts), sep)

(***************************************************************************)
(* BULK LOADER, ALL TABLES (DataLoader.load_data)                          *)
(*                                                                         *)
(* A call of _load_table_direct is followed through its connection and its *)
(* return value; SpecTable follows the rows.                               *)
(***************************************************************************)
TABLE_FILES ==
    <<"call_center", "catalog_page", "catalog_returns", "catalog_sales", "customer",
      "customer_address", "customer_demographics", "date_dim",
      "household_demographics", "income_band", "inventory", "item", "promotion",
      "reason", "ship_mode", "store", "store_returns", "store_sales", "time_dim",
      "warehouse", "web_page", "web_returns", "web_sales", "web_site">>

\* the data directory holds files of the first NumLoadTables tables at most
NumLoadTables == 3

\* the largest value of the argument parallel
MaxParallel == 2

Range(seq) == {seq[i] : i \in DOMAIN seq}

LoadTables == Range(SubSeq(TABLE_FILES, 1, NumLoadTables))

\* no filter, a table of the directory (in either letter case), a table with no file
Filters == {"", TABLE_FILES[1], Upper(TABLE_FILES[1]), TABLE_FILES[NumLoadTables + 1]}

\* _find_data_files: the tables with a file, in the order of TABLE_FILES
_find_data_files(dir) == SelectSeq(TABLE_FILES, LAMBDA t : t \in dir)

\* a call of _load_table_direct
NotCalled == [state |-> "new", conn |-> 0, result |-> "none", why |-> "none"]

\* how a call that holds a connection ends: (return value, cause)
Outcomes ==
    {<<TRUE, "rows">>,           \* rows_inserted > 0
     <<FALSE, "no_rows">>,       \* rows_inserted = 0
     <<FALSE, "no_table">>,      \* the catalog has no column of the table
     <<FALSE, "catalog">>,       \* the catalog query raised oracledb.Error
     <<FALSE, "raised">>}        \* any other exception, caught by except Exception

\* calls that were started and have not returned
Active == {t \in DOMAIN loads : loads[t].state \in {"connect", "loading"}}

\* oracledb.connect: a connection of its own for every call of get_connection
GetSharedConnection(conns, who) == IF conns = << >> THEN 1 ELSE Len(conns)

GetConnection(conns, who) == Len(conns) + 1

Opened(conns, c, who) ==
    IF c > Len(conns)
    THEN Append(conns, [by |-> who, open |-> TRUE, users |-> {who}])
    ELSE [conns EXCEPT ![c].open = TRUE, ![c].users = @ \cup {who}]

\* what a check returned, "none" before it is made
Answer(value) == IF value THEN "True" ELSE "False"

\* load_data returns
ReturnLoad(value) ==
    /\ ld_pc' = "done"
    /\ ld_result' = value

\* whether load_data goes on after the connectivity probe
GoesOnWithoutConnection(up) == TRUE

GoesOn(up) == up

\* load_data up to the loop: discovery, filter (table.lower()), connectivity probe
Prepare ==
    /\ ld_pc = "start"
    /\ LET found == _find_data_files(data_dir)
           table == Lower(table_filter)
           files == IF table_filter # "" /\ table \in Range(found)
                    THEN <<table>> ELSE found
       IN  IF found = << >> \/ (table_filter # "" /\ table \notin Range(found))
           THEN /\ ReturnLoad(FALSE)
                /\ data_files' = found
                /\ UNCHANGED <<loads, connections, ld_next, test_connection>>
           ELSE /\ data_files' = files
                /\ \E up \in BOOLEAN :
                    /\ test_connection' = Answer(up)
                    /\ connections' =
                          IF up
                          THEN LET c == GetConnection(connections, "probe")
                               IN  [Opened(connections, c, "probe") EXCEPT ![c].open = FALSE]
                          ELSE connections
                    /\ IF GoesOn(up)
                       THEN /\ loads' = [t \in Range(files) |-> NotCalled]
                            /\ ld_next' = 1
                            /\ ld_pc' = IF parallel > 1 THEN "submit" ELSE "sequential"
                            /\ UNCHANGED ld_result
                       ELSE /\ ReturnLoad(FALSE)
                            /\ UNCHANGED <<loads, ld_next>>
    /\ UNCHANGED <<data_dir, table_filter, parallel, work_queue, success_count, started,
                   notLoad>>

\* executor.submit(self._load_table_direct, table_name, ...) for the next table
Submit ==
    /\ ld_pc = "submit"
    /\ LET t == data_files[ld_next]
       IN  /\ loads' = [loads EXCEPT ![t].state = "queued"]
           /\ work_queue' = Append(work_queue, t)
    /\ ld_next' = ld_next + 1
    /\ ld_pc' = IF ld_next = Len(data_files) THEN "collect" ELSE "submit"
    /\ UNCHANGED <<data_dir, table_filter, parallel, data_files, connections,
                   success_count, started, ld_result, test_connection, notLoad>>

\* a worker thread of the pool (max_workers = parallel) takes the oldest call
StartLoad(t) ==
    /\ work_queue # << >>
    /\ t = Head(work_queue)
    /\ Cardinality(Active) < parallel
    /\ work_queue' = Tail(work_queue)
    /\ loads' = [loads EXCEPT ![t].state = "connect"]
    /\ started' = Append(started, t)
    /\ UNCHANGED <<data_dir, table_filter, parallel, ld_pc, ld_next, data_files,
                   connections, success_count, ld_result, test_connection, notLoad>>

\* sequential loading: the loop calls _load_table_direct itself
CallLoad ==
    /\ ld_pc = "sequential"
    /\ loads[data_files[ld_next]].state = "new"
    /\ loads' = [loads EXCEPT ![data_files[ld_next]].state = "connect"]
    /\ started' = Append(started, data_files[ld_next])
    /\ UNCHANGED <<data_dir, table_filter, parallel, ld_pc, ld_next, data_files,
                   work_queue, connections, success_count, ld_result, test_connection, notLoad>>

\* _load_table_direct: with db_manager.get_connection() as conn
LoadConnect(t) ==
    /\ t \in DOMAIN loads
    /\ loads[t].state = "connect"
    /\ \/ LET c == GetConnection(connections, t)
          IN  /\ connections' = Opened(connections, c, t)
              /\ loads' = [loads EXCEPT ![t].state = "loading", ![t].conn = c]
       \/ /\ loads' = [loads EXCEPT ![t].state = "returned", ![t].result = FALSE,
                                    ![t].why = "connect"]
          /\ UNCHANGED connections
    /\ UNCHANGED <<data_dir, table_filter, parallel, ld_pc, ld_next, data_files,
                   work_queue, success_count, started, ld_result, test_connection, notLoad>>

\* _load_table_direct from the catalog query to its return; the connection is closed
LoadTable(t) ==
    /\ t \in DOMAIN loads
    /\ loads[t].state = "loading"
    /\ \E out \in Outcomes :
        loads' = [loads EXCEPT ![t].state = "returned", ![t].result = out[1],
                               ![t].why = out[2]]
    /\ connections' = [connections EXCEPT ![loads[t].conn].open = FALSE]
    /\ UNCHANGED <<data_dir, table_filter, parallel, ld_pc, ld_next, data_files,
                   work_queue, success_count, started, ld_result, test_connection, notLoad>>

\* the counter set from a value read before another update
CountedFromStale(t) ==
    /\ loads' = [loads EXCEPT ![t].state = "counted"]
    /\ success_count' = IF loads[t].result = TRUE THEN 1 ELSE success_count

\* success_count += 1 when the call returned True
Counted(t) ==
    /\ loads' = [loads EXCEPT ![t].state = "counted"]
    /\ success_count' = IF loads[t].result = TRUE THEN success_count + 1 ELSE success_count

\* one iteration of: for future in as_completed(futures)
Collect(t) ==
    /\ ld_pc = "collect"
    /\ t \in DOMAIN loads
    /\ loads[t].state = "returned"
    /\ Counted(t)
    /\ ld_pc' = IF \A u \in DOMAIN loads : u = t \/ loads[u].state = "counted"
                THEN "summary" ELSE "collect"
    /\ UNCHANGED <<data_dir, table_filter, parallel, ld_next, data_files, work_queue,
                   connections, started, ld_result, test_connection, notLoad>>

\* the sequential loop goes on with the next table whatever the call returned
NextTableUnlessFailed(i, success) == IF success THEN i + 1 ELSE Len(data_files) + 1

NextTable(i, success) == i + 1

\* sequential loading: the call returned, the loop counts it and goes on
CountLoad ==
    /\ ld_pc = "sequential"
    /\ loads[data_files[ld_next]].state = "returned"
    /\ Counted(data_files[ld_next])
    /\ ld_next' = NextTable(ld_next, loads[data_files[ld_next]].result)
    /\ ld_pc' = IF ld_next' > Len(data_files) THEN "summary" ELSE "sequential"
    /\ UNCHANGED <<data_dir, table_filter, parallel, data_files, work_queue,
                   connections, started, ld_result, test_connection, notLoad>>

\* return success_count == len(data_files)
Summary ==
    /\ ld_pc = "summary"
    /\ ReturnLoad(success_count = Len(data_files))
    /\ UNCHANGED <<data_dir, table_filter, parallel, ld_next, data_files, loads,
                   work_queue, connections, success_count, started, test_connection, notLoad>>

LoadInit ==
    /\ data_dir \in SUBSET LoadTables
    /\ table_filter \in Filters
    /\ parallel \in 1..MaxParallel
    /\ ld_pc = "start"
    /\ ld_next = 0
    /\ data_files = << >>
    /\ loads = << >>
    /\ work_queue = << >>
    /\ connections = << >>
    /\ success_count = 0
    /\ started = << >>
    /\ test_connection = "none"
    /\ ld_result = "none"
    /\ GenOff
    /\ TableOff
    /\ SqlOff
    /\ RowOff
    /\ CreateOff
    /\ CopyOff
    /\ TestOff
    /\ CliOff
    /\ ResolveOff
    /\ UserOff
    /\ CatalogOff

LoadNext ==
    \/ Prepare
    \/ Submit
    \/ \E t \in LoadTables : StartLoad(t)
    \/ CallLoad
    \/ \E t \in LoadTables : LoadConnect(t)
    \/ \E t \in LoadTables : LoadTable(t)
    \/ \E t \in LoadTables : Collect(t)
    \/ CountLoad
    \/ Summary

SpecLoad == LoadInit /\ [][LoadNext]_vars

(***************************************************************************)
(* Claims about load_data                                                  *)
(***************************************************************************)
\* the loop over the tables was reached and load_data returned
LoadReturned == ld_pc = "done" /\ loads # << >>

\* the call for the table returned True
Reports(t) == t \in DOMAIN loads /\ loads[t].result = TRUE

StartsOf(t) == Cardinality({i \in DOMAIN started : started[i] = t})

\* C3: load_data returns True iff every discovered table reports success; a
\* table that has no column in the catalog, whose connection fails or whose load
\* raises fails alone: every discovered table is still loaded, once, and reports
\* failure only for a cause of its own.
C3_SuccessIffEveryTableSucceeds ==
    (ld_pc = "done" /\ data_files # << >>) =>
        /\ ld_result = (\A t \in Range(data_files) : Reports(t))
        /\ LoadReturned =>
            \A t \in Range(data_files) :
                /\ loads[t].state = "counted"
                /\ StartsOf(t) = 1
                /\ loads[t].result = (loads[t].why = "rows")
        /\ LoadReturned =>
            success_count = Cardinality({t \in Range(data_files) : Reports(t)})

\* one table absent from the catalog, one whose connection failed, one loaded
C3_Witness ==
    /\ LoadReturned
    /\ ld_result = FALSE
    /\ \E t1, t2, t3 \in Range(data_files) :
        /\ loads[t1].why = "no_table"
        /\ loads[t2].why = "connect"
        /\ loads[t3].why = "rows"
        /\ success_count = 1

\* C4: with parallel > 1 every discovered table is loaded by exactly one call,
\* at most parallel calls are active at a time, and every call works on a
\* connection of its own that nobody else uses; with parallel = 1 the tables are
\* loaded one after another in the order of TABLE_FILES.
C4_OneWorkerOneConnection ==
    /\ \A t \in LoadTables : StartsOf(t) <= 1
    /\ LoadReturned => Range(started) = Range(data_files)
    /\ Cardinality(Active) <= parallel
    /\ \A c \in DOMAIN connections : Cardinality(connections[c].users) = 1
    /\ \A t, u \in DOMAIN loads :
        (t # u /\ loads[t].state = "loading" /\ loads[u].state = "loading") =>
            loads[t].conn # loads[u].conn
    /\ parallel = 1 =>
        /\ started = SubSeq(data_files, 1, Len(started))
        /\ LoadReturned => started = data_files
        /\ \A t \in DOMAIN loads :
            loads[t].state \in {"connect", "loading", "returned"} => t = data_files[ld_next]

\* two calls are active on two open connections while a third table waits
C4_Witness ==
    /\ parallel = 2
    /\ work_queue # << >>
    /\ \E t, u \in Active :
        /\ t # u
        /\ loads[t].state = "loading" /\ loads[u].state = "loading"
        /\ connections[loads[t].conn].open /\ connections[loads[u].conn].open

\* what the sequential loop counts for the first i tables, given what their
\* calls returned
RECURSIVE SequentialCount(_)
SequentialCount(i) ==
    IF i = 0 THEN 0
    ELSE SequentialCount(i - 1) + (IF Reports(data_files[i]) THEN 1 ELSE 0)

\* the tables whose result the loop has counted as a success
CountedSuccesses == {t \in DOMAIN loads : loads[t].state = "counted" /\ Reports(t)}

\* C29: for the same results of the calls, load_data counts the same number
\* of successful tables and returns the same value with parallel > 1, in
\* whatever order the workers finish, as the sequential loop does; no update of
\* success_count is lost
C29_ParallelCountsAsSequential ==
    loads # << >> =>
        /\ success_count = Cardinality(CountedSuccesses)
        /\ LoadReturned =>
            /\ success_count = SequentialCount(Len(data_files))
            /\ ld_result = (SequentialCount(Len(data_files)) = Len(data_files))

\* a parallel load of three tables has returned; a later table got its
\* connection before an earlier one; two calls returned True, one False
C29_Witness ==
    /\ LoadReturned
    /\ parallel = 2
    /\ Len(data_files) = 3
    /\ \E i, j \in DOMAIN data_files :
        /\ i < j
        /\ loads[data_files[j]].conn # 0
        /\ loads[data_files[j]].conn < loads[data_files[i]].conn
    /\ success_count = 2
    /\ ld_result = FALSE

(***************************************************************************)
(* SCHEMA TOOLS: qualifying a script                                       *)
(* (DatabaseManager._qualify_sql_for_schema)                               *)
(***************************************************************************)
tpcds_tables ==
    <<"CALL_CENTER", "CATALOG_PAGE", "CATALOG_RETURNS", "CATALOG_SALES", "CUSTOMER",
      "CUSTOMER_ADDRESS", "CUSTOMER_DEMOGRAPHICS", "DATE_DIM", "HOUSEHOLD_DEMOGRAPHICS",
      "INCOME_BAND", "INVENTORY", "ITEM", "PROMOTION", "REASON", "SHIP_MODE", "STORE",
      "STORE_RETURNS", "STORE_SALES", "TIME_DIM", "WAREHOUSE", "WEB_PAGE", "WEB_RETURNS",
      "WEB_SALES", "WEB_SITE", "DBGEN_VERSION">>

\* ---- the regular expressions of the function (module re) ----
\* \w
WordChars == Chars(LowerCase) \cup Chars(UpperCase) \cup Chars(Digits) \cup {"_"}

\* \b between the characters i - 1 and i
Boundary(s, i) ==
    (i > 1 /\ Char(s, i - 1) \in WordChars) # (i <= Len(s) /\ Char(s, i) \in WordChars)

\* a word of the pattern at position i, letter case ignored (re.IGNORECASE): the
\* position after it, 0 when it is not there
Literal(s, i, word) ==
    IF i > 0 /\ i + Len(word) - 1 <= Len(s)
             /\ Lower(SubSeq(s, i, i + Len(word) - 1)) = Lower(word)
    THEN i + Len(word) ELSE 0

\* a word of the pattern at position i, letter case kept
Exact(s, i, word) ==
    IF i > 0 /\ i + Len(word) - 1 <= Len(s) /\ SubSeq(s, i, i + Len(word) - 1) = word
    THEN i + Len(word) ELSE 0

RECURSIVE Past(_, _, _)
Past(s, i, chars) == IF i <= Len(s) /\ Char(s, i) \in chars THEN Past(s, i + 1, chars) ELSE i

\* \s+ at position i
Spaces(s, i) == IF i > 0 /\ Past(s, i, Whitespace) > i THEN Past(s, i, Whitespace) ELSE 0

\* \b<keyword>\s+table\s+<table>\b at position i
MatchTable(s, i, keyword, table) ==
    LET e == Literal(s, Spaces(s, Literal(s, Spaces(s, Literal(s, i, keyword)), "table")),
                     table)
    IN  IF Boundary(s, i) /\ e > 0 /\ Boundary(s, e) THEN e ELSE 0

\* re.sub(pattern, replacement, s, flags=re.IGNORECASE) from position i on: the
\* text up to the leftmost match, the replacement, and on after the match
RECURSIVE SubTable(_, _, _, _, _)
SubTable(s, i, keyword, table, replacement) ==
    LET j == Least({k \in i..Len(s) : MatchTable(s, k, keyword, table) > 0})
    IN  IF j = 0 THEN From(s, i)
        ELSE SubSeq(s, i, j - 1) \o replacement
             \o SubTable(s, MatchTable(s, j, keyword, table), keyword, table, replacement)

\* the replacement with its keywords in upper case
ReplacementInUpperCase(keyword, target, table) ==
    Upper(keyword) \o " TABLE " \o target \o "." \o table

\* f"create table {target_schema}.{table}", f"drop table {target_schema}.{table}"
Replacement(keyword, target, table) == keyword \o " table " \o target \o "." \o table

\* the body of: for table in tpcds_tables
QualifyTable(text, table, target) ==
    SubTable(SubTable(text, 1, "create", table, Replacement("create", target, table)),
             1, "drop", table, Replacement("drop", target, table))

\* s.replace(old, new) from position i on
RECURSIVE ReplaceAll(_, _, _, _)
ReplaceAll(s, i, old, new) ==
    LET j == Least({k \in i..Len(s) : Exact(s, k, old) > 0})
    IN  IF j = 0 THEN From(s, i)
        ELSE SubSeq(s, i, j - 1) \o new \o ReplaceAll(s, j + Len(old), old, new)

\* all_tables WHERE owner = '[^']+' WHERE at position i
MatchWhere(s, i) ==
    LET a == Exact(s, i, "all_tables WHERE owner = '")
        b == IF a > 0 THEN Past(s, a, Chars(s) \ {"'"}) ELSE 0
    IN  IF b > a THEN Exact(s, b, "' WHERE") ELSE 0

RECURSIVE SubWhere(_, _, _)
SubWhere(s, i, replacement) ==
    LET j == Least({k \in i..Len(s) : MatchWhere(s, k) > 0})
    IN  IF j = 0 THEN From(s, i)
        ELSE SubSeq(s, i, j - 1) \o replacement \o SubWhere(s, MatchWhere(s, j), replacement)

\* if "user_tables" in modified_sql: ...
QualifyUserTables(text, target) ==
    LET owner == "all_tables WHERE owner = '" \o Upper(target) \o "'"
    IN  IF Contains(text, "user_tables")
        THEN SubWhere(ReplaceAll(text, 1, "user_tables", owner), 1, owner \o " AND")
        ELSE text

(***************************************************************************)
(* SCHEMA TOOLS: splitting a script (DatabaseManager.execute_sql_file)     *)
(***************************************************************************)
\* the longest script made of the lines below (the sample scripts are added to them)
MaxScriptLines == 4

\* the lines scripts are made of
ScriptLines ==
    {"CREATE TABLE T (X NUMBER);", "BEGIN", "  NULL;", "END;", "/", "DECLARE",
     "-- cleanup", "", "DROP TABLE T"}

BlockScript == <<"CREATE TABLE T (X NUMBER);", "BEGIN", "  NULL;", "END;", "/">>

\* a block written on one line, and the / that closes it
OneLineBlockScript == <<"BEGIN NULL; END;", "/", "DROP TABLE T;">>

\* a block whose declaration is on its opening line
DeclareScript == <<"DECLARE x NUMBER;", "BEGIN", "  NULL;", "END;", "/">>

\* a table with a column named BEGIN_DATE, and the statement after it
ColumnScript == <<"CREATE TABLE E (", "  BEGIN_DATE DATE", ");", "DROP TABLE T;">>

SampleScripts == {BlockScript, OneLineBlockScript, DeclareScript, ColumnScript}

Scripts ==
    SampleScripts \cup UNION {[1..n -> ScriptLines] : n \in 0..MaxScriptLines}

\* any(keyword in current_stmt.upper() for keyword in ["BEGIN", "DECLARE"])
InBlockNever(stmt) == FALSE

InBlock(stmt) == Contains(Upper(stmt), "BEGIN") \/ Contains(Upper(stmt), "DECLARE")

\* if stripped_line.startswith("--") or not stripped_line: continue
Skipped(stripped_line) == StartsWith(stripped_line, "--") \/ stripped_line = ""

\* if current_stmt.strip(): statements.append(current_stmt.strip())
Emit(stmts, stmt) == IF Strip(stmt) # "" THEN Append(stmts, Strip(stmt)) ELSE stmts

\* the body of: for line in lines, on the pair (current_stmt, statements)
SplitLine(st, line) ==
    LET stripped_line == Strip(line)
    IN  IF Skipped(stripped_line) THEN st
        ELSE IF stripped_line = "/"
        THEN IF Strip(st.current_stmt) # ""
             THEN [current_stmt |-> "", statements |-> Emit(st.statements, st.current_stmt)]
             ELSE st
        ELSE IF EndsWith(stripped_line, ";") /\ ~InBlock(st.current_stmt)
        THEN LET stmt == st.current_stmt \o SubSeq(stripped_line, 1, Len(stripped_line) - 1)
             IN  [current_stmt |-> "", statements |-> Emit(st.statements, stmt)]
        ELSE [st EXCEPT !.current_stmt =
                 IF st.current_stmt # "" THEN st.current_stmt \o "\n" \o stripped_line
                 ELSE stripped_line]

\* after the loop: the remaining statement, then the filter of empty statements
\* and comments
SplitEnd(st) ==
    SelectSeq(Emit(st.statements, st.current_stmt),
              LAMBDA stmt : Strip(stmt) # "" /\ ~StartsWith(Strip(stmt), "--"))

RECURSIVE SplitLines(_, _)
SplitLines(st, rest) ==
    IF rest = << >> THEN st ELSE SplitLines(SplitLine(st, Head(rest)), Tail(rest))


\* ---- the splitting loop, a line at a time ----
NextLine ==
    /\ sql_pc = "split"
    /\ line_i < Len(lines)
    /\ line_i' = line_i + 1
    /\ LET st == SplitLine([current_stmt |-> current_stmt, statements |-> statements],
                           lines[line_i'])
       IN  /\ current_stmt' = st.current_stmt
           /\ statements' = st.statements
    /\ UNCHANGED <<sql_file, target_schema, sql_pc, lines, stmt_i, attempts, sql_session,
                   sql_result, modified_sql, table_i, notSql>>

LastLine ==
    /\ sql_pc = "split"
    /\ line_i = Len(lines)
    /\ statements' = SplitEnd([current_stmt |-> current_stmt, statements |-> statements])
    /\ sql_pc' = "connect"
    /\ UNCHANGED <<sql_file, target_schema, lines, line_i, current_stmt, stmt_i, attempts,
                   sql_session, sql_result, modified_sql, table_i, notSql>>

SplitInit ==
    /\ lines \in Scripts
    /\ sql_file = [exists |-> TRUE, content |-> Join(lines, "\n")]
    /\ target_schema = ""
    /\ sql_pc = "split"
    /\ line_i = 0
    /\ current_stmt = ""
    /\ statements = << >>
    /\ stmt_i = 0
    /\ attempts = << >>
    /\ sql_session = << >>
    /\ sql_result = "none"
    /\ modified_sql = ""
    /\ table_i = 0
    /\ GenOff
    /\ TableOff
    /\ LoadOff
    /\ RowOff
    /\ CreateOff
    /\ CopyOff
    /\ TestOff
    /\ CliOff
    /\ ResolveOff
    /\ UserOff
    /\ CatalogOff

SplitNext ==
    \/ NextLine
    \/ LastLine

SpecSplit == SplitInit /\ [][SplitNext]_vars

(***************************************************************************)
(* Claims about splitting                                                  *)
(***************************************************************************)
SplitDone == sql_pc = "connect"

\* a line that opens a block: BEGIN or DECLARE alone
Opens(line) == Strip(line) \in {"BEGIN", "DECLARE"}

\* the lines i..j of the script as the loop keeps them
Kept(i, j) ==
    Join(SelectSeq([k \in 1..(j - i + 1) |-> Strip(lines[i + k - 1])],
                   LAMBDA stripped_line : ~Skipped(stripped_line)), "\n")

\* the blocks that the line just handled closes: opened by line i, no line that
\* is solely / in between
ClosedBlocks ==
    {i \in 1..(line_i - 1) :
        /\ Opens(lines[i])
        /\ Strip(lines[line_i]) = "/"
        /\ \A k \in (i + 1)..(line_i - 1) : Strip(lines[k]) # "/"}

\* C5: the script CREATE TABLE T (X NUMBER); / BEGIN / NULL; / END; / "/" splits
\* into exactly the CREATE TABLE statement without its semicolon and the block
\* with its semicolons and without the / line; in every script a block opened by
\* a line that is BEGIN or DECLARE alone is emitted as one statement, whole, when
\* the line that is solely / closes it.
C5_BlockIsOneStatement ==
    /\ (SplitDone /\ lines = BlockScript) =>
            statements = <<"CREATE TABLE T (X NUMBER)", "BEGIN\nNULL;\nEND;">>
    /\ (sql_pc = "split" /\ line_i > 0) =>
            \A i \in ClosedBlocks :
                /\ current_stmt = ""
                /\ statements # << >>
                /\ EndsWith(statements[Len(statements)], Kept(i, line_i - 1))
                /\ (i = 1 \/ Strip(lines[i - 1]) = "/") =>
                        statements[Len(statements)] = Kept(i, line_i - 1)

\* the script of the claim has been split
C5_Witness ==
    /\ SplitDone
    /\ lines = BlockScript
    /\ Len(statements) = 2

\* a line whose first word is BEGIN or DECLARE: the opening line of an anonymous
\* procedural block
OpensBlock(line) ==
    \E keyword \in {"BEGIN", "DECLARE"} :
        \/ Upper(Strip(line)) = keyword
        \/ StartsWith(Upper(Strip(line)), keyword \o " ")

\* a statement starts at line i: the first line, or the line after a / line
StartsStatement(i) ==
    /\ ~Skipped(Strip(lines[i]))
    /\ Strip(lines[i]) # "/"
    /\ (i = 1 \/ Strip(lines[i - 1]) = "/")

\* the blocks that are open after the line just handled: a statement that starts
\* with an opening line, and no line that is solely / since
OpenBlocks ==
    {i \in 1..line_i :
        /\ StartsStatement(i)
        /\ OpensBlock(lines[i])
        /\ \A k \in i..line_i : Strip(lines[k]) # "/"}

\* C17: no semicolon inside an anonymous procedural block opened by BEGIN or
\* DECLARE is a statement terminator: while no line that is solely / has been
\* reached and the input has not ended, nothing of the block is emitted and the
\* accumulated statement is the block so far, whichever of its lines carries its
\* first semicolon, the opening line included (BEGIN NULL; END; or
\* DECLARE x NUMBER;).
C17_BlockSemicolonsNeverTerminate ==
    (sql_pc = "split" /\ line_i > 0) =>
        \A i \in OpenBlocks : current_stmt = Kept(i, line_i)

\* the plain statements that the line just handled ends: a statement that starts
\* at line i with a line that opens no block, none of its lines opens a block,
\* and the line just handled is its first line ending in ;
EndedStatements ==
    {i \in 1..line_i :
        /\ StartsStatement(i)
        /\ \A k \in i..line_i : ~OpensBlock(lines[k]) /\ Strip(lines[k]) # "/"
        /\ EndsWith(Strip(lines[line_i]), ";")
        /\ \A k \in i..(line_i - 1) : ~EndsWith(Strip(lines[k]), ";")}

\* C18: in every script a line ending in ; ends and emits the accumulated
\* statement whenever that statement is not an anonymous procedural block, also
\* when its text holds the letters BEGIN or DECLARE inside an identifier (a
\* CREATE TABLE with a column BEGIN_DATE): nothing is left accumulated and the
\* statement emitted last is the lines of that statement without the terminator,
\* so the statements that follow are never merged with it.
C18_PlainStatementEndsAtSemicolon ==
    (sql_pc = "split" /\ line_i > 0) =>
        \A i \in EndedStatements :
            /\ current_stmt = ""
            /\ statements # << >>
            /\ statements[Len(statements)] =
                   Strip(Kept(i, line_i - 1)
                         \o SubSeq(Strip(lines[line_i]), 1, Len(Strip(lines[line_i])) - 1))

\* the lines of the script that are statement text: not blank, no comment, not
\* solely /
KeptLines ==
    SelectSeq([k \in 1..Len(lines) |-> Strip(lines[k])],
              LAMBDA stripped_line : ~Skipped(stripped_line) /\ stripped_line # "/")

\* the lines of the emitted statements, in order
EmittedLines == IF statements = << >> THEN << >> ELSE Split(Join(statements, "\n"), "\n")

\* C22: split loses, duplicates and reorders nothing: the lines of the emitted
\* statements, read in order, are the non-blank, non-comment lines of the input
\* that are not solely /, each once and in input order, with nothing removed but
\* a statement terminator at the end of a line; a trailing statement with no
\* terminator at end of input is emitted as the last statement.
C22_NothingLostOrReordered ==
    SplitDone =>
        /\ Len(EmittedLines) = Len(KeptLines)
        /\ \A k \in 1..Len(KeptLines) :
                k <= Len(EmittedLines) =>
                    \/ EmittedLines[k] = KeptLines[k]
                    \/ EmittedLines[k] \o ";" = KeptLines[k]
        /\ (KeptLines # << >> /\ ~EndsWith(KeptLines[Len(KeptLines)], ";")
                /\ Strip(lines[Len(lines)]) # "/") =>
                /\ statements # << >>
                /\ EndsWith(statements[Len(statements)], KeptLines[Len(KeptLines)])

(***************************************************************************)
(* SCHEMA TOOLS: qualifying a script, a table name at a time               *)
(***************************************************************************)
\* the statements the scripts are made of: keyword, spacing, table name, rest
Keywords == {"CREATE", "create", "DROP", "Drop"}
Gaps == {" ", "  ", "\n"}
Names == {"ITEM", "item", "Customer", "CUSTOMER_ADDRESS", "ITEMS", "T"}
Rests == {" (...)", ";"}

TableStatements == [keyword : Keywords, gap : Gaps, name : Names, rest : Rests]

Text(stmt) == stmt.keyword \o stmt.gap \o "TABLE" \o stmt.gap \o stmt.name \o stmt.rest

OtherTexts ==
    {"DROP TABLE item;\nCREATE TABLE item (i NUMBER);",
     "SELECT table_name FROM user_tables WHERE table_name LIKE 'WEB%'",
     "SELECT COUNT(*) FROM user_tables",
     "RECREATE TABLE ITEM (...)"}

\* the catalog queries of the cleanup section: the WHERE that follows user_tables
\* in upper, lower and mixed case, after a space or a line break
CatalogQueries == [gap : {" ", "\n"}, where : {"WHERE", "where", "Where"}]

QueryText(query) ==
    "SELECT table_name FROM user_tables" \o query.gap \o query.where
        \o " table_name LIKE 'WEB%'"

RewriteTexts ==
    {Text(stmt) : stmt \in TableStatements} \cup OtherTexts
        \cup {QueryText(query) : query \in CatalogQueries}

\* no target, targets that are no table names, and targets named like a table
Targets == {"", "SALES", "hr", "STORE", "ITEM"}

\* if not target_schema: return sql_content
ReturnUnchanged ==
    /\ sql_pc = "qualify"
    /\ target_schema = ""
    /\ sql_pc' = "qualified"
    /\ UNCHANGED <<sql_file, target_schema, lines, line_i, current_stmt, statements, stmt_i,
                   attempts, sql_session, sql_result, modified_sql, table_i, notSql>>

\* one iteration of: for table in tpcds_tables
QualifyNextTable ==
    /\ sql_pc = "qualify"
    /\ target_schema # ""
    /\ table_i < Len(tpcds_tables)
    /\ table_i' = table_i + 1
    /\ modified_sql' = QualifyTable(modified_sql, tpcds_tables[table_i'], target_schema)
    /\ UNCHANGED <<sql_file, target_schema, sql_pc, lines, line_i, current_stmt, statements,
                   stmt_i, attempts, sql_session, sql_result, notSql>>

\* after the loop: the catalog query, and return modified_sql
QualifyCatalogQuery ==
    /\ sql_pc = "qualify"
    /\ target_schema # ""
    /\ table_i = Len(tpcds_tables)
    /\ modified_sql' = QualifyUserTables(modified_sql, target_schema)
    /\ sql_pc' = "qualified"
    /\ UNCHANGED <<sql_file, target_schema, lines, line_i, current_stmt, statements, stmt_i,
                   attempts, sql_session, sql_result, table_i, notSql>>

RewriteInit ==
    /\ \E text \in RewriteTexts : sql_file = [exists |-> TRUE, content |-> text]
    /\ target_schema \in Targets
    /\ sql_pc = "qualify"
    /\ modified_sql = sql_file.content
    /\ table_i = 0
    /\ lines = << >>
    /\ line_i = 0
    /\ current_stmt = ""
    /\ statements = << >>
    /\ stmt_i = 0
    /\ attempts = << >>
    /\ sql_session = << >>
    /\ sql_result = "none"
    /\ GenOff
    /\ TableOff
    /\ LoadOff
    /\ RowOff
    /\ CreateOff
    /\ CopyOff
    /\ TestOff
    /\ CliOff
    /\ ResolveOff
    /\ UserOff
    /\ CatalogOff

RewriteNext ==
    \/ ReturnUnchanged
    \/ QualifyNextTable
    \/ QualifyCatalogQuery

SpecRewrite == RewriteInit /\ [][RewriteNext]_vars

(***************************************************************************)
(* Claims about qualifying                                                 *)
(***************************************************************************)
Qualified == sql_pc = "qualified"

Known(name) == Upper(name) \in Range(tpcds_tables)

\* the statement with the target put before its table name and nothing else changed
QualifiedInPlace(stmt, target) ==
    stmt.keyword \o stmt.gap \o "TABLE" \o stmt.gap \o target \o "." \o stmt.name \o stmt.rest

\* the statement as the replacement writes it: keywords in lower case, one space
\* each, the name as tpcds_tables lists it
QualifiedInLowerCase(stmt, target) ==
    Lower(stmt.keyword) \o " table " \o target \o "." \o Upper(stmt.name) \o stmt.rest

\* C9 (as claimed): CREATE TABLE <name> and DROP TABLE <name> of a known table,
\* in any letter case, come out with '<target>.' before the name and the rest of
\* the text, the letter case of the keywords included, unchanged ('CREATE TABLE
\* ITEM (...)' with target SALES gives 'CREATE TABLE SALES.ITEM (...)'); with an
\* empty target the output equals the input.
C9_QualifiedKeepingCase ==
    Qualified =>
        /\ target_schema = "" => modified_sql = sql_file.content
        /\ (target_schema = "SALES" /\ sql_file.content = "CREATE TABLE ITEM (...)") =>
                modified_sql = "CREATE TABLE SALES.ITEM (...)"
        /\ \A stmt \in TableStatements :
            (target_schema # "" /\ sql_file.content = Text(stmt) /\ Known(stmt.name)) =>
                modified_sql = QualifiedInPlace(stmt, target_schema)

\* C9 (amended): the same for a target that is not itself named like a known
\* table, but the matched keywords come out in lower case with one space each
\* and the table name in upper case: 'CREATE TABLE ITEM (...)' with target SALES
\* gives 'create table SALES.ITEM (...)'; a name that is not a known table is
\* left alone; with an empty target the output equals the input.
C9_QualifiedInLowerCase ==
    Qualified =>
        /\ target_schema = "" => modified_sql = sql_file.content
        /\ (target_schema = "SALES" /\ sql_file.content = "CREATE TABLE ITEM (...)") =>
                modified_sql = "create table SALES.ITEM (...)"
        /\ \A stmt \in TableStatements :
            (target_schema # "" /\ ~Known(target_schema) /\ sql_file.content = Text(stmt)) =>
                modified_sql = IF Known(stmt.name)
                               THEN QualifiedInLowerCase(stmt, target_schema)
                               ELSE Text(stmt)

\* the statement of the claim has been qualified for SALES
C9_Witness ==
    /\ Qualified
    /\ target_schema = "SALES"
    /\ sql_file.content = "CREATE TABLE ITEM (...)"
    /\ modified_sql = "create table SALES.ITEM (...)"

\* C27: for every non-empty target, one named like a known table (STORE, ITEM)
\* included, each CREATE TABLE / DROP TABLE of a known table comes out with
\* exactly one '<target>.' before the table name, never with two
C27_QualifiedOnce ==
    Qualified =>
        \A stmt \in TableStatements :
            (target_schema # "" /\ sql_file.content = Text(stmt) /\ Known(stmt.name)) =>
                modified_sql = QualifiedInLowerCase(stmt, target_schema)

\* the owner condition of the rewritten catalog query
OwnerCondition(target) == "all_tables WHERE owner = '" \o Upper(target) \o "'"

\* the WHERE keywords of a text, in any letter case
Wheres(text) == {k \in 1..Len(text) : Exact(Upper(text), k, "WHERE") > 0}

\* C19: for every rewritten script that queries user_tables and every non-empty
\* target, the query lists the tables owned by the target schema (all_tables
\* with the owner condition in place of user_tables) and holds no duplicate
\* WHERE: a WHERE that already follows the table reference, in any letter case,
\* after a space or a line break, is merged with AND.
C19_CatalogQueryMergesWhere ==
    (Qualified /\ target_schema # "" /\ Contains(sql_file.content, "user_tables")) =>
        /\ ~Contains(modified_sql, "user_tables")
        /\ Contains(modified_sql, OwnerCondition(target_schema))
        /\ Cardinality(Wheres(modified_sql)) = 1
        /\ \A query \in CatalogQueries :
                sql_file.content = QueryText(query) =>
                    modified_sql = "SELECT table_name FROM " \o OwnerCondition(target_schema)
                                       \o " AND table_name LIKE 'WEB%'"

(***************************************************************************)
(* SCHEMA TOOLS: executing a script (DatabaseManager.execute_sql_file)     *)
(*                                                                         *)
(* The database answers a statement with success or with oracledb.Error;   *)
(* the connection may also be lost while a statement runs, after which     *)
(* every call on it raises oracledb.Error.                                 *)
(***************************************************************************)
ExecTexts ==
    {Join(BlockScript, "\n") \o "\n",
     "DROP TABLE item;\nCREATE TABLE item (i NUMBER);\nCREATE TABLE T (X NUMBER);",
     "DROP TABLE T",
     "-- nothing to do\n"}

ExecFiles == [exists : BOOLEAN, readable : BOOLEAN, content : ExecTexts]

ExecTargets == {"", "SALES"}

NoSession == [opened |-> 0, open |-> FALSE, alive |-> FALSE, commits |-> 0]

\* return; the with blocks and get_connection's finally close the connection
ReturnSql(value) ==
    /\ sql_pc' = "done"
    /\ sql_result' = value
    /\ sql_session' = [sql_session EXCEPT !.open = FALSE]

\* the file is read; with a target schema its text is qualified next
ReadFile ==
    /\ sql_pc = "start"
    /\ IF ~sql_file.exists \/ ~sql_file.readable
       THEN /\ ReturnSql(FALSE)
            /\ UNCHANGED modified_sql
       ELSE /\ modified_sql' = sql_file.content
            /\ sql_pc' = IF target_schema # "" THEN "qualify" ELSE "read"
            /\ UNCHANGED <<sql_session, sql_result>>
    /\ UNCHANGED <<sql_file, target_schema, lines, line_i, current_stmt, statements, stmt_i,
                   attempts, table_i, notSql>>

\* the splitting loop as a whole, on the text read or qualified
SplitScript ==
    /\ sql_pc \in {"read", "qualified"}
    /\ lines' = Split(modified_sql, "\n")
    /\ line_i' = Len(lines')
    /\ LET st == SplitLines([current_stmt |-> "", statements |-> << >>], lines')
       IN  /\ current_stmt' = st.current_stmt
           /\ statements' = SplitEnd(st)
    /\ sql_pc' = "connect"
    /\ UNCHANGED <<sql_file, target_schema, stmt_i, attempts, sql_session, sql_result,
                   modified_sql, table_i, notSql>>

\* with self.get_connection() as conn: oracledb.connect raises, or connects
ConnectSql ==
    /\ sql_pc = "connect"
    /\ \/ /\ sql_session' = [sql_session EXCEPT !.opened = @ + 1, !.open = TRUE,
                                                !.alive = TRUE]
          /\ sql_pc' = "execute"
          /\ UNCHANGED sql_result
       \/ ReturnSql(FALSE)
    /\ UNCHANGED <<sql_file, target_schema, lines, line_i, current_stmt, statements, stmt_i,
                   attempts, modified_sql, table_i, notSql>>

\* the loop over the statements goes on after a statement that raised
NextStatementUnlessFailed(i, n, failed) == IF failed THEN n ELSE i + 1

NextStatement(i, n, failed) == i + 1

\* one iteration of: for i, stmt in enumerate(statements)
ExecuteStatement ==
    /\ sql_pc = "execute"
    /\ stmt_i < Len(statements)
    /\ \E outcome \in {"ok", "error", "lost"} :
        /\ outcome = "ok" => sql_session.alive
        /\ outcome = "lost" => sql_session.alive
        /\ attempts' = Append(attempts, [stmt |-> statements[stmt_i + 1],
                                         session |-> sql_session.opened,
                                         outcome |-> outcome,
                                         logged |-> outcome # "ok"])
        /\ sql_session' = [sql_session EXCEPT !.alive = @ /\ outcome # "lost"]
        /\ stmt_i' = NextStatement(stmt_i, Len(statements), outcome # "ok")
    /\ UNCHANGED <<sql_file, target_schema, sql_pc, lines, line_i, current_stmt, statements,
                   sql_result, modified_sql, table_i, notSql>>

\* the value returned after the pass
RunResultIfNoneFailed(log) == \A k \in DOMAIN log : log[k].outcome = "ok"

RunResult(log) == TRUE

\* after the loop: conn.commit(), which raises on a lost connection, and return
CommitAndReturn ==
    /\ sql_pc = "execute"
    /\ stmt_i = Len(statements)
    /\ sql_pc' = "done"
    /\ IF sql_session.alive
       THEN /\ sql_session' = [sql_session EXCEPT !.commits = @ + 1, !.open = FALSE]
            /\ sql_result' = RunResult(attempts)
       ELSE /\ sql_session' = [sql_session EXCEPT !.open = FALSE]
            /\ sql_result' = FALSE
    /\ UNCHANGED <<sql_file, target_schema, lines, line_i, current_stmt, statements, stmt_i,
                   attempts, modified_sql, table_i, notSql>>

ExecInit ==
    /\ sql_file \in ExecFiles
    /\ target_schema \in ExecTargets
    /\ sql_pc = "start"
    /\ lines = << >>
    /\ line_i = 0
    /\ current_stmt = ""
    /\ statements = << >>
    /\ stmt_i = 0
    /\ attempts = << >>
    /\ sql_session = NoSession
    /\ sql_result = "none"
    /\ modified_sql = ""
    /\ table_i = 0
    /\ GenOff
    /\ TableOff
    /\ LoadOff
    /\ RowOff
    /\ CreateOff
    /\ CopyOff
    /\ TestOff
    /\ CliOff
    /\ ResolveOff
    /\ UserOff
    /\ CatalogOff

ExecNext ==
    \/ ReadFile
    \/ QualifyNextTable
    \/ QualifyCatalogQuery
    \/ SplitScript
    \/ ConnectSql
    \/ ExecuteStatement
    \/ CommitAndReturn

SpecExec == ExecInit /\ [][ExecNext]_vars

(***************************************************************************)
(* Claims about executing a script                                         *)
(***************************************************************************)
\* the loop over the statements ran to its end and the commit went through
PassCompleted == sql_session.commits = 1

\* C6: every statement is attempted exactly once, in the order of the split, on
\* the one session of the run; a statement that fails with a database error is
\* logged and the next one is still executed; the one commit comes only after
\* the last statement has been attempted.
C6_EveryStatementOnceInOrder ==
    /\ Len(attempts) <= Len(statements)
    /\ \A k \in DOMAIN attempts :
        /\ attempts[k].stmt = statements[k]
        /\ attempts[k].session = 1
        /\ attempts[k].logged = (attempts[k].outcome # "ok")
    /\ sql_session.opened <= 1
    /\ sql_session.commits <= 1
    /\ sql_session.commits = 1 => Len(attempts) = Len(statements)
    /\ (sql_pc = "done" /\ sql_session.opened = 1) => Len(attempts) = Len(statements)

\* three statements, the first two failed, the third ran, then the commit
C6_Witness ==
    /\ sql_pc = "done"
    /\ Len(attempts) = 3
    /\ attempts[1].outcome = "error"
    /\ attempts[2].outcome = "error"
    /\ attempts[3].outcome = "ok"
    /\ sql_session.commits = 1

\* C7: execute_sql_file returns True whenever the file was read, a connection
\* was obtained and the pass was completed, however many statements failed;
\* it returns False only when the file is missing (or unreadable, so that no
\* connection is asked for), no connection is obtained or the pass is not
\* completed.
C7_ResultReflectsCompletion ==
    sql_pc = "done" =>
        /\ sql_result =
              (sql_file.exists /\ sql_file.readable /\ sql_session.opened = 1 /\ PassCompleted)
        /\ sql_result = FALSE =>
              (~sql_file.exists \/ sql_session.opened = 0 \/ ~PassCompleted)

\* every statement of the script failed and the run still returned True
C7_Witness ==
    /\ sql_pc = "done"
    /\ sql_result = TRUE
    /\ Len(attempts) >= 2
    /\ \A k \in DOMAIN attempts : attempts[k].outcome = "error"

(***************************************************************************)
(* BULK LOADER, ONE LINE: from the line of the data file to the row of the *)
(* batch (DataLoader._load_table_direct, the body of the loop)             *)
(*                                                                         *)
(* A value of a row is None, a str, an int or a float; a float is kept as  *)
(* the decimal number it was read from, units * 10^-scale with as small a  *)
(* scale as the number allows (42.5 is 425 * 10^-1, 150.0 is 150 * 10^0).  *)
(***************************************************************************)
\* the most fields of a line and the most columns of a table (the row of four
\* fields below is added to them)
MaxFields == 2
MaxColumns == 2

FieldSamples ==
    {"abc", "2024-01-15", "2024-1-15", "01-15-2024", "", "42.5", "42", "-7", "1e5", "1.5e2",
     " 42", "1_000", "."}

DataTypes == {"VARCHAR2", "DATE", "NUMBER"}

SampleRow == "abc|2024-01-15||42.5"
SampleColumns == <<"STRING", "DATE", "NUMBER", "NUMBER">>

\* a line of the file ends with its line break
RowLines ==
    {Join(fields, "|") \o "\n" : fields \in UNION {[1..n -> FieldSamples] : n \in 1..MaxFields}}

ColumnLists == UNION {[1..n -> DataTypes] : n \in 1..MaxColumns}

None == [kind |-> "None", text |-> "", units |-> 0, scale |-> 0]
StrValue(v) == [kind |-> "str", text |-> v, units |-> 0, scale |-> 0]
IntValue(n) == [kind |-> "int", text |-> "", units |-> n, scale |-> 0]

\* the float units * 10^-scale
RECURSIVE FloatValue(_, _)
FloatValue(units, scale) ==
    IF scale < 0 THEN FloatValue(units * 10, scale + 1)
    ELSE IF scale > 0 /\ units % 10 = 0 THEN FloatValue(units \div 10, scale - 1)
    ELSE [kind |-> "float", text |-> "", units |-> units, scale |-> scale]

\* s.count(c)
Count(s, c) == Cardinality({i \in 1..Len(s) : Char(s, i) = c})

\* digits, with single underscores between them
IsDigits(s) ==
    /\ s # ""
    /\ \A i \in 1..Len(s) : Char(s, i) \in Chars(Digits) \cup {"_"}
    /\ Char(s, 1) # "_"
    /\ Char(s, Len(s)) # "_"
    /\ \A i \in 1..(Len(s) - 1) : ~(Char(s, i) = "_" /\ Char(s, i + 1) = "_")

\* the number the digits write
RECURSIVE Number(_)
Number(s) ==
    IF s = "" THEN 0
    ELSE IF Char(s, Len(s)) = "_" THEN Number(SubSeq(s, 1, Len(s) - 1))
    ELSE Number(SubSeq(s, 1, Len(s) - 1)) * 10 + (Place(Digits, Char(s, Len(s))) - 1)

\* an optional sign and what follows it
Signed(s) ==
    IF s # "" /\ Char(s, 1) \in {"+", "-"}
    THEN [sign |-> IF Char(s, 1) = "-" THEN 0 - 1 ELSE 1, body |-> From(s, 2)]
    ELSE [sign |-> 1, body |-> s]

\* int(v): surrounding white space, a sign, digits; ValueError otherwise
IntParses(v) == IsDigits(Signed(Strip(v)).body)
IntOf(v) == IntValue(Signed(Strip(v)).sign * Number(Signed(Strip(v)).body))

\* float(v) for a v that holds a '.': surrounding white space, a sign, digits
\* with a point among or around them, an exponent; ValueError otherwise
FloatParts(v) ==
    LET body == Signed(Strip(v)).body
        e == Least({i \in 1..Len(body) : Char(body, i) \in {"e", "E"}})
        mantissa == IF e = 0 THEN body ELSE SubSeq(body, 1, e - 1)
        point == Find(mantissa, ".", 1)
    IN  [sign |-> Signed(Strip(v)).sign,
         whole |-> IF point = 0 THEN mantissa ELSE SubSeq(mantissa, 1, point - 1),
         fraction |-> IF point = 0 THEN "" ELSE From(mantissa, point + 1),
         has_exponent |-> e > 0,
         exponent |-> IF e = 0 THEN "" ELSE From(body, e + 1)]

FloatParses(v) ==
    LET p == FloatParts(v)
    IN  /\ p.whole = "" \/ IsDigits(p.whole)
        /\ p.fraction = "" \/ IsDigits(p.fraction)
        /\ p.whole # "" \/ p.fraction # ""
        /\ p.has_exponent => IsDigits(Signed(p.exponent).body)

FloatOf(v) ==
    LET p == FloatParts(v)
        power == IF p.has_exponent
                 THEN Signed(p.exponent).sign * Number(Signed(p.exponent).body) ELSE 0
    IN  FloatValue(p.sign * Number(p.whole \o p.fraction),
              Count(p.fraction, "_") * (0 - 1) + Len(p.fraction) - power)

\* while values and values[-1] == "": values.pop()
RECURSIVE PopEmpty(_)
PopEmpty(vals) ==
    IF vals # << >> /\ vals[Len(vals)] = "" THEN PopEmpty(SubSeq(vals, 1, Len(vals) - 1))
    ELSE vals

\* pad with "" up to n values, truncate to n values
Fit(vals, n) == [i \in 1..n |-> IF i <= Len(vals) THEN vals[i] ELSE ""]

\* "." in v: the field is read as a float
HasPointNever(v) == FALSE

HasPoint(v) == Contains(v, ".")

\* the body of: for v, col_name in zip(values, columns)
Coerce(v, data_type) ==
    IF v = "" THEN None
    ELSE IF data_type = "DATE"
    THEN IF Len(v) = 10 /\ Count(v, "-") = 2 THEN StrValue(v) ELSE None
    ELSE IF data_type = "NUMBER"
    THEN IF HasPoint(v)
         THEN IF FloatParses(v) THEN FloatOf(v) ELSE None
         ELSE IF IntParses(v) THEN IntOf(v) ELSE None
    ELSE StrValue(v)

\* if line.strip(): values = line.strip().split("|"), trailing empty values
\* removed, padded or truncated to the number of columns
SplitRow ==
    /\ co_pc = "line"
    /\ IF Strip(row_line) = ""
       THEN /\ co_pc' = "skipped"
            /\ UNCHANGED values
       ELSE /\ values' = Fit(PopEmpty(Split(Strip(row_line), "|")), Len(column_types))
            /\ co_pc' = "coerce"
    /\ UNCHANGED <<row_line, column_types, processed_values, notRow>>

\* one iteration of: for v, col_name in zip(values, columns); after the last
\* one the row goes to batch_data
CoerceField ==
    /\ co_pc = "coerce"
    /\ LET i == Len(processed_values) + 1
       IN  /\ processed_values' = Append(processed_values, Coerce(values[i], column_types[i]))
           /\ co_pc' = IF i = Len(values) THEN "row" ELSE "coerce"
    /\ UNCHANGED <<row_line, column_types, values, notRow>>

RowInit ==
    /\ \/ row_line \in RowLines /\ column_types \in ColumnLists
       \/ row_line = SampleRow /\ column_types = SampleColumns
    /\ co_pc = "line"
    /\ values = << >>
    /\ processed_values = << >>
    /\ GenOff
    /\ TableOff
    /\ LoadOff
    /\ SqlOff
    /\ CreateOff
    /\ CopyOff
    /\ TestOff
    /\ CliOff
    /\ ResolveOff
    /\ UserOff
    /\ CatalogOff

RowNext ==
    \/ SplitRow
    \/ CoerceField

SpecRow == RowInit /\ [][RowNext]_vars

\* the row of the line has gone to the batch
RowCoerced == co_pc = "row"

\* what float(v) or int(v) gives for the sample fields, None for a ValueError
NumberRead ==
    [v \in FieldSamples \ {""} |->
        CASE v = "42.5" -> FloatValue(425, 1)
          [] v = "1.5e2" -> FloatValue(150, 0)
          [] v = "42" -> IntValue(42)
          [] v = " 42" -> IntValue(42)
          [] v = "-7" -> IntValue(0 - 7)
          [] v = "1_000" -> IntValue(1000)
          [] OTHER -> None]

\* C10: in the row made of a line, an empty field is NULL; a field of a
\* NUMBER column is an integer when it holds no '.' and a decimal when it
\* holds one, NULL when it does not parse; a field of a column that is neither
\* DATE nor NUMBER is the string itself; and 'abc|2024-01-15||42.5' against
\* (STRING, DATE, NUMBER, NUMBER) gives ('abc', 2024-01-15, NULL, 42.5)
C10_RowCoercion ==
    RowCoerced =>
        /\ Len(processed_values) = Len(column_types)
        /\ \A i \in 1..Len(column_types) :
              LET v == values[i]
                  data_type == column_types[i]
                  value == processed_values[i]
              IN  /\ v = "" => value = None
                  /\ v # "" /\ data_type = "NUMBER" =>
                        /\ value = NumberRead[v]
                        /\ value.kind \in
                              (IF \E k \in 1..Len(v) : Char(v, k) = "."
                               THEN {"float", "None"} ELSE {"int", "None"})
                  /\ v # "" /\ data_type \notin {"DATE", "NUMBER"} => value = StrValue(v)
        /\ row_line = SampleRow /\ column_types = SampleColumns =>
              /\ values = <<"abc", "2024-01-15", "", "42.5">>
              /\ processed_values =
                    <<StrValue("abc"), StrValue("2024-01-15"), None, FloatValue(425, 1)>>

\* the row of four fields has been coerced
C10_Witness ==
    /\ RowCoerced
    /\ row_line = SampleRow
    /\ column_types = SampleColumns
    /\ processed_values[3] = None
    /\ processed_values[4].kind = "float"

\* four digits, '-', two digits, '-', two digits
StrictDate(v) ==
    /\ Len(v) = 10
    /\ IsDigits(SubSeq(v, 1, 4)) /\ Char(v, 5) = "-"
    /\ IsDigits(SubSeq(v, 6, 7)) /\ Char(v, 8) = "-"
    /\ IsDigits(SubSeq(v, 9, 10))

\* C23: for a DATE column, a non-empty field is passed on only if it is a
\* strict YYYY-MM-DD date; every other non-empty field of a DATE column becomes
\* NULL.
C23_OnlyStrictDates ==
    RowCoerced =>
        \A i \in 1..Len(column_types) :
            (column_types[i] = "DATE" /\ values[i] # "") =>
                processed_values[i] = IF StrictDate(values[i]) THEN StrValue(values[i]) ELSE None

(***************************************************************************)
(* SCHEMA TOOLS: creating the schema (DatabaseManager.create_schema)       *)
(*                                                                         *)
(* The database answers each of the calls of create_schema on its own: the *)
(* user check, the creation of the user and the probe of                   *)
(* _check_create_privileges succeed or fail whatever the earlier calls     *)
(* returned (each of them turns every exception into False).  The script   *)
(* is executed by execute_sql_file as modelled above.                      *)
(***************************************************************************)
\* the values of the option --schema and of config.schema_name
SchemaNames == {"", "sales", "Sales", "SALES", "hr", "tpcds_1"}

\* the resolver with the configured name first
ConfiguredFirst(override, name) ==
    IF name # "" THEN Upper(name)
    ELSE IF override # "" THEN Upper(override)
    ELSE ""

\* DatabaseManager._get_schema_name, with config.schema_name as name; an absent
\* override (None) is ""
_get_schema_name(override, name) ==
    IF override # "" THEN Upper(override)
    ELSE IF name # "" THEN Upper(name)
    ELSE ""

\* the schema files: none given and none found, a missing one, scripts
NoFile == << >>
SchemaFiles ==
    {[exists |-> FALSE, readable |-> FALSE, content |-> "DROP TABLE T"],
     [exists |-> TRUE, readable |-> TRUE, content |-> "DROP TABLE T"],
     [exists |-> TRUE, readable |-> TRUE,
      content |-> "DROP TABLE item;\nCREATE TABLE item (i NUMBER);\nCREATE TABLE T (X NUMBER);"]}

ReturnCreate(value) ==
    /\ create_pc' = "done"
    /\ create_result' = value

\* if schema_file is None: the candidates are looked for; return False when
\* none exists
FindSchemaFile ==
    /\ create_pc = "start"
    /\ IF schema_file = NoFile
       THEN ReturnCreate(FALSE)
       ELSE /\ create_pc' = IF schema_name # "" THEN "user" ELSE "script"
            /\ UNCHANGED create_result
    /\ UNCHANGED <<schema_name, schema_file, user_exists, user_created, can_create,
                   probe_table, notCreate>>

\* if not self._check_schema_user_exists(schema_name)
CheckSchemaUser ==
    /\ create_pc = "user"
    /\ \E answer \in BOOLEAN :
        /\ user_exists' = Answer(answer)
        /\ create_pc' = IF answer THEN "probe" ELSE "create_user"
    /\ UNCHANGED <<schema_name, schema_file, user_created, can_create, probe_table,
                   create_result, notCreate>>

\* if not self._create_schema_user(schema_name): only messages; the probe is next
CreateSchemaUser ==
    /\ create_pc = "create_user"
    /\ \E answer \in BOOLEAN : user_created' = Answer(answer)
    /\ create_pc' = "probe"
    /\ UNCHANGED <<schema_name, schema_file, user_exists, can_create, probe_table,
                   create_result, notCreate>>

\* whether create_schema goes on to the script after the probe
ProceedsIfUserCreated(probe, created) == probe \/ created = "True"

Proceeds(probe, created) == probe

\* if not self._check_create_privileges(schema_name): return False.  The probe
\* creates and drops TPCDS_PRIVILEGE_TEST and commits; whichever of its calls
\* raises, it returns False (the table stays when the drop is the one).
ProbePrivileges ==
    /\ create_pc = "probe"
    /\ \E outcome \in {"no connection", "create raises", "drop raises", "commit raises", "ok"} :
        /\ can_create' = Answer(outcome = "ok")
        /\ probe_table' = (outcome = "drop raises")
        /\ IF Proceeds(outcome = "ok", user_created)
           THEN /\ create_pc' = "script"
                /\ UNCHANGED create_result
           ELSE ReturnCreate(FALSE)
    /\ UNCHANGED <<schema_name, schema_file, user_exists, user_created, notCreate>>

\* return self.execute_sql_file(schema_file, target_schema=schema_name): the call
CallScript ==
    /\ create_pc = "script"
    /\ create_pc' = "running"
    /\ sql_file' = schema_file
    /\ target_schema' = schema_name
    /\ sql_pc' = "start"
    /\ sql_session' = NoSession
    /\ UNCHANGED <<lines, line_i, current_stmt, statements, stmt_i, attempts, sql_result,
                   modified_sql, table_i>>
    /\ UNCHANGED <<schema_name, schema_file, user_exists, user_created, can_create,
                   probe_table, create_result, notCreateSql>>

\* return self.execute_sql_file(...): its value is the value of create_schema
ReturnScript ==
    /\ create_pc = "running"
    /\ sql_pc = "done"
    /\ ReturnCreate(sql_result)
    /\ UNCHANGED <<schema_name, schema_file, user_exists, user_created, can_create,
                   probe_table, notCreate>>

CreateInit ==
    /\ create_pc = "start"
    /\ schema_name \in {_get_schema_name(o, c) : o \in SchemaNames, c \in SchemaNames}
    /\ schema_file \in {NoFile} \cup SchemaFiles
    /\ user_exists = "none"
    /\ user_created = "none"
    /\ can_create = "none"
    /\ probe_table = FALSE
    /\ create_result = "none"
    /\ GenOff
    /\ TableOff
    /\ LoadOff
    /\ SqlOff
    /\ RowOff
    /\ CopyOff
    /\ TestOff
    /\ CliOff
    /\ ResolveOff
    /\ UserOff
    /\ CatalogOff

CreateNext ==
    \/ FindSchemaFile
    \/ CheckSchemaUser
    \/ CreateSchemaUser
    \/ ProbePrivileges
    \/ CallScript
    \/ ReadFile
    \/ QualifyNextTable
    \/ QualifyCatalogQuery
    \/ SplitScript
    \/ ConnectSql
    \/ ExecuteStatement
    \/ CommitAndReturn
    \/ ReturnScript

SpecCreate == CreateInit /\ [][CreateNext]_vars

(***************************************************************************)
(* Claims about creating the schema                                        *)
(***************************************************************************)
\* execute_sql_file has been called
ScriptCalled == sql_pc # "off"

\* C11: with a target schema, create_schema executes the script exactly when
\* the probe succeeded: when the probe fails it returns False and no statement
\* of the script is executed, also when the user was just created; when the
\* probe succeeds the script is executed and its result returned, also when the
\* creation of the user failed.
C11_ProbeIsAuthoritative ==
    schema_name # "" =>
        /\ ScriptCalled => can_create = "True"
        /\ (create_pc = "done" /\ can_create = "False") =>
              (create_result = FALSE /\ ~ScriptCalled /\ attempts = << >>)
        /\ (create_pc = "done" /\ can_create = "True") =>
              (sql_pc = "done" /\ sql_file = schema_file /\ target_schema = schema_name
               /\ create_result = sql_result)
        /\ (create_pc = "done" /\ user_created = "True" /\ can_create = "False") =>
              create_result = FALSE

\* the creation of the user failed, the probe succeeded, and the script was
\* executed in the target schema
C11_Witness ==
    /\ create_pc = "done"
    /\ schema_name = "SALES"
    /\ user_exists = "False"
    /\ user_created = "False"
    /\ can_create = "True"
    /\ Len(attempts) = 3
    /\ create_result = TRUE

(***************************************************************************)
(* SCHEMA TOOLS: copying a schema (DatabaseManager.copy_schema)            *)
(*                                                                         *)
(* Each statement of the run succeeds, raises oracledb.Error, or loses the *)
(* connection (and raises); on a lost connection every later call raises,  *)
(* the final commit included.                                              *)
(***************************************************************************)
\* the longest table_list
MaxCopyTables == 3

\* table_list = [...] when none is given: the first names of the list
DefaultTableList ==
    <<"DBGEN_VERSION", "CUSTOMER_ADDRESS", "CUSTOMER_DEMOGRAPHICS", "DATE_DIM", "WAREHOUSE">>

TableLists == {SubSeq(DefaultTableList, 1, n) : n \in 0..MaxCopyTables}

\* the other schema, and the source schema itself in another letter case
TargetSchemas == {"tgt", "SRC"}

\* f"{schema.upper()}.{table.upper()}"
QualifiedName(schema, table) == Upper(schema) \o "." \o Upper(table)

\* the tables the two schemas may hold at the call: any of the tables of the
\* list, in the source and in the target; the rows of a table are named after
\* the table that held them at the call
Catalogs(source, target, tables) ==
    LET names == {QualifiedName(schema, tables[k]) : schema \in {source, target}, k \in DOMAIN tables}
    IN  {[name \in existing |-> "rows of " \o name] : existing \in SUBSET names}

\* DROP TABLE name CASCADE CONSTRAINTS, when it does not raise
DropTableNever(tables, name) == tables

DropTable(tables, name) == [other \in DOMAIN tables \ {name} |-> tables[other]]

\* CREATE TABLE target AS SELECT * FROM source (WHERE 1=0 for the structure
\* only), when it does not raise
CreateAsSelect(tables, target, source, data) ==
    Put(tables, target, IF data THEN tables[source] ELSE "no rows")

ReturnCopy(value) ==
    /\ copy_pc' = "done"
    /\ copy_result' = value
    /\ copy_session' = [copy_session EXCEPT !.open = FALSE]

\* if not self._check_schema_user_exists(target_schema):
\*     if not self.create_user(target_schema): return False
EnsureTargetUser ==
    /\ copy_pc = "start"
    /\ \E exists \in BOOLEAN, created \in BOOLEAN :
        IF exists \/ created
        THEN /\ copy_pc' = "connect"
             /\ UNCHANGED <<copy_session, copy_result>>
        ELSE ReturnCopy(FALSE)
    /\ UNCHANGED <<table_list, include_data, copy_i, copy_log, successful_copies,
                   failed_copies, target_tables, source_schema, copy_target,
                   catalog_before, catalog, notCopy>>

\* with self.get_connection() as conn
ConnectCopy ==
    /\ copy_pc = "connect"
    /\ \/ /\ copy_session' = [copy_session EXCEPT !.opened = @ + 1, !.open = TRUE,
                                                  !.alive = TRUE]
          /\ copy_pc' = "loop"
          /\ UNCHANGED copy_result
       \/ ReturnCopy(FALSE)
    /\ UNCHANGED <<table_list, include_data, copy_i, copy_log, successful_copies,
                   failed_copies, target_tables, source_schema, copy_target,
                   catalog_before, catalog, notCopy>>

\* what can happen to a table: its source is not in the catalog; it is copied;
\* the catalog query, or the CREATE TABLE ... AS SELECT, raises; the connection
\* is lost in one of its statements
CopyOutcomes(alive) ==
    IF alive THEN {"absent", "copied", "check raises", "create raises", "lost"}
    ELSE {"check raises"}

Failed(outcome) == outcome \in {"check raises", "create raises", "lost"}

\* the loop over table_list goes on after a table that failed
NextCopyUnlessFailed(i, n, failed) == IF failed THEN n ELSE i + 1

NextCopy(i, n, failed) == i + 1

\* one iteration of: for table in table_list.  The catalog query finds the
\* source table or not; DROP TABLE of the target table raises (ignored) or drops
\* it; CREATE TABLE ... AS SELECT raises when the source table is missing or the
\* target table exists, and may raise for any other reason
CopyTable ==
    /\ copy_pc = "loop"
    /\ copy_i < Len(table_list)
    /\ LET table == table_list[copy_i + 1]
           source_table == QualifiedName(source_schema, table)
           target_table == QualifiedName(copy_target, table)
       IN  \E outcome \in CopyOutcomes(copy_session.alive), dropped \in BOOLEAN :
            LET after_drop == IF dropped THEN DropTable(catalog, target_table) ELSE catalog
            IN
            /\ outcome = "absent" => source_table \notin DOMAIN catalog
            /\ outcome \in {"copied", "create raises"} => source_table \in DOMAIN catalog
            /\ dropped =>
                    /\ outcome \in {"copied", "create raises", "lost"}
                    /\ source_table \in DOMAIN catalog
                    /\ target_table \in DOMAIN catalog
            /\ outcome = "copied" =>
                    /\ source_table \in DOMAIN after_drop
                    /\ target_table \notin DOMAIN after_drop
            /\ catalog' = IF outcome = "copied"
                          THEN CreateAsSelect(after_drop, target_table, source_table,
                                              include_data)
                          ELSE after_drop
            /\ copy_log' = Append(copy_log,
                                  [table |-> table, outcome |-> outcome, dropped |-> dropped,
                                   data |-> include_data /\ outcome = "copied"])
            /\ successful_copies' = successful_copies + (IF outcome = "copied" THEN 1 ELSE 0)
            /\ failed_copies' = IF Failed(outcome) THEN Append(failed_copies, table)
                                ELSE failed_copies
            \* DROP TABLE ... CASCADE CONSTRAINTS, its error ignored, then CREATE TABLE
            /\ target_tables' =
                  IF outcome = "copied" THEN target_tables \cup {table}
                  ELSE IF outcome = "create raises" THEN target_tables \ {table}
                  ELSE target_tables
            /\ copy_session' = [copy_session EXCEPT !.alive = @ /\ outcome # "lost"]
            /\ copy_i' = NextCopy(copy_i, Len(table_list), Failed(outcome))
    /\ UNCHANGED <<copy_pc, table_list, include_data, copy_result, source_schema, copy_target,
                   catalog_before, notCopy>>

\* after the loop: conn.commit(), which raises on a lost connection (the outer
\* except returns False); return False when failed_copies is not empty; the row
\* counts of the tables are printed and True is returned
CommitCopy ==
    /\ copy_pc = "loop"
    /\ copy_i = Len(table_list)
    /\ copy_pc' = "done"
    /\ \E lost \in BOOLEAN :
        IF copy_session.alive /\ ~lost
        THEN /\ copy_session' = [copy_session EXCEPT !.commits = @ + 1, !.open = FALSE]
             /\ copy_result' = (failed_copies = << >>)
        ELSE /\ copy_session' = [copy_session EXCEPT !.alive = FALSE, !.open = FALSE]
             /\ copy_result' = FALSE
    /\ UNCHANGED <<table_list, include_data, copy_i, copy_log, successful_copies,
                   failed_copies, target_tables, source_schema, copy_target,
                   catalog_before, catalog, notCopy>>

CopyInit ==
    /\ copy_pc = "start"
    /\ table_list \in TableLists
    /\ include_data \in BOOLEAN
    /\ copy_i = 0
    /\ copy_log = << >>
    /\ successful_copies = 0
    /\ failed_copies = << >>
    /\ target_tables = {}
    /\ copy_session = NoSession
    /\ copy_result = "none"
    /\ source_schema = "src"
    /\ copy_target \in TargetSchemas
    /\ catalog_before \in Catalogs(source_schema, copy_target, table_list)
    /\ catalog = catalog_before
    /\ GenOff
    /\ TableOff
    /\ LoadOff
    /\ SqlOff
    /\ RowOff
    /\ CreateOff
    /\ TestOff
    /\ CliOff
    /\ ResolveOff
    /\ UserOff

CopyNext ==
    \/ EnsureTargetUser
    \/ ConnectCopy
    \/ CopyTable
    \/ CommitCopy

SpecCopy == CopyInit /\ [][CopyNext]_vars

(***************************************************************************)
(* Claims about copying a schema                                           *)
(***************************************************************************)
\* the tables handled so far are those of the list, in its order; the failed
\* ones, and only they, are collected in that order; a table whose source is
\* not in the catalog is neither counted as copied nor collected
TablesInOrder ==
    /\ Len(copy_log) = copy_i
    /\ \A k \in DOMAIN copy_log : copy_log[k].table = table_list[k]
    /\ failed_copies =
          [k \in 1..Len(failed_copies) |->
              SelectSeq(copy_log, LAMBDA e : Failed(e.outcome))[k].table]
    /\ Len(failed_copies) = Len(SelectSeq(copy_log, LAMBDA e : Failed(e.outcome)))
    /\ successful_copies = Len(SelectSeq(copy_log, LAMBDA e : e.outcome = "copied"))
    /\ target_tables = {copy_log[k].table : k \in {j \in DOMAIN copy_log :
                                                      copy_log[j].outcome = "copied"}}

CopyReturned == copy_pc = "done"

\* C12 as stated: every table of the list is attempted in order whatever
\* happened to the others, and copy_schema returns True exactly when no table
\* failed
C12_TrueIffNoTableFailed ==
    CopyReturned =>
        /\ TablesInOrder
        /\ copy_i = Len(table_list)
        /\ copy_result = (failed_copies = << >>)

\* C12 as the code has it: once the target user exists and the connection is
\* open, every table of the list is attempted in order whatever happened to
\* the others, and copy_schema returns True exactly when no table failed and
\* the final commit went through
C12_TrueIffNoTableFailedAndCommitted ==
    /\ TablesInOrder
    /\ CopyReturned =>
          /\ copy_session.opened = 1 => copy_i = Len(table_list)
          /\ copy_result =
                (copy_session.opened = 1 /\ failed_copies = << >> /\ copy_session.commits = 1)

\* the first table failed, the second had no source, the third was copied, and
\* the run returned False with the first table collected
C12_Witness ==
    /\ CopyReturned
    /\ Len(copy_log) = 3
    /\ Failed(copy_log[1].outcome)
    /\ copy_log[2].outcome = "absent"
    /\ copy_log[3].outcome = "copied"
    /\ failed_copies = <<table_list[1]>>
    /\ successful_copies = 1
    /\ copy_result = FALSE

\* the tables of the source schema at the call
SourceTablesBefore ==
    {QualifiedName(source_schema, table_list[k]) : k \in DOMAIN table_list}
        \cap DOMAIN catalog_before

KeptTable(name) == name \in DOMAIN catalog /\ catalog[name] = catalog_before[name]

\* C25: copy_schema never drops or alters a table of the source schema: when
\* it has returned, every source table that existed at the call still exists
\* with the same rows, also when source and target name the same schema in
\* another letter case
C25_SourceUntouched ==
    CopyReturned => \A name \in SourceTablesBefore : KeptTable(name)

\* the entries of the log whose CREATE TABLE ... AS SELECT raised
FailedAtCreate == {k \in DOMAIN copy_log : copy_log[k].outcome = "create raises"}

TargetOf(k) == QualifiedName(copy_target, copy_log[k].table)

\* C28 as stated: a table whose create-as-select failed has its pre-existing
\* target table as it was at the call
C28_FailedCreateKeepsTarget ==
    \A k \in FailedAtCreate : TargetOf(k) \in DOMAIN catalog_before => KeptTable(TargetOf(k))

\* C28: a table whose create-as-select failed has its pre-existing target
\* table as it was at the call only when the DROP TABLE before it raised; when
\* the drop was done the target table is gone and is not restored
C28_FailedCreateKeepsTargetUnlessDropped ==
    \A k \in FailedAtCreate :
        IF copy_log[k].dropped
        THEN TargetOf(k) \notin DOMAIN catalog
        ELSE TargetOf(k) \in DOMAIN catalog_before => KeptTable(TargetOf(k))

\* copy_schema returned with a table in the failed list whose target table
\* was dropped before its create-as-select raised, and with another whose drop
\* raised and which kept its target table
C28_Witness ==
    /\ CopyReturned
    /\ copy_target = "tgt"
    /\ \E k \in FailedAtCreate :
            /\ copy_log[k].dropped
            /\ copy_log[k].table \in Range(failed_copies)
            /\ TargetOf(k) \in DOMAIN catalog_before
            /\ TargetOf(k) \notin DOMAIN catalog
    /\ \E k \in FailedAtCreate :
            /\ ~copy_log[k].dropped
            /\ TargetOf(k) \in DOMAIN catalog_before
            /\ KeptTable(TargetOf(k))

(***************************************************************************)
(* Claims about the early returns of load_data                             *)
(***************************************************************************)
\* the data directory holds none of the expected files
NoDataFile == data_dir \cap Range(TABLE_FILES) = {}

\* the filter names a table, in any letter case, whose file is not there
FilterWithoutFile ==
    /\ table_filter # ""
    /\ \A t \in data_dir : Lower(t) # Lower(table_filter)

ProbeFailed == test_connection = "False"

\* no call of _load_table_direct was made, queued or counted, and no connection
\* was opened for a table
NoLoadStarted ==
    /\ started = << >>
    /\ work_queue = << >>
    /\ \A t \in DOMAIN loads : loads[t] = NotCalled
    /\ \A c \in DOMAIN connections : connections[c].by = "probe"
    /\ success_count = 0

\* C13: when no expected data file is found, when the filter names a table
\* without a data file, or when the connectivity probe fails, load_data returns
\* False at once: no table load is ever started.
C13_EarlyReturns ==
    (NoDataFile \/ FilterWithoutFile \/ ProbeFailed) =>
        /\ NoLoadStarted
        /\ ld_pc \in {"start", "done"}
        /\ ld_pc = "done" => ld_result = FALSE
        /\ ProbeFailed => ld_pc = "done"

\* the files are there, the filter names one of them in upper case, the probe
\* failed and load_data returned False
C13_Witness ==
    /\ ld_pc = "done"
    /\ ~NoDataFile
    /\ table_filter = Upper(TABLE_FILES[1])
    /\ ~FilterWithoutFile
    /\ ProbeFailed
    /\ ld_result = FALSE

(***************************************************************************)
(* SYNTHETIC DATA GENERATOR, TEST MODE (create_synthetic_data(scale=0))    *)
(*                                                                         *)
(* The tables are kept record by record, a record projected on its keys    *)
(* (and the date of a date_dim record).  A date is (year, month, day).     *)
(***************************************************************************)
\* the largest store_transactions of one store and date
MaxStoreTransactions == 3

Date(y, m, d) == [year |-> y, month |-> m, day |-> d]

\* a <= b on dates
NotAfter(a, b) ==
    \/ a.year < b.year
    \/ a.year = b.year /\ a.month < b.month
    \/ a.year = b.year /\ a.month = b.month /\ a.day <= b.day

LeapYear(y) == (y % 4 = 0 /\ y % 100 # 0) \/ y % 400 = 0

DaysIn(y, m) ==
    IF m = 2 THEN (IF LeapYear(y) THEN 29 ELSE 28)
    ELSE IF m \in {4, 6, 9, 11} THEN 30 ELSE 31

\* d + timedelta(days=1)
NextDay(d) ==
    IF d.day < DaysIn(d.year, d.month) THEN Date(d.year, d.month, d.day + 1)
    ELSE IF d.month < 12 THEN Date(d.year, d.month + 1, 1)
    ELSE Date(d.year + 1, 1, 1)

\* config = DataGenerationConfig(scale_factor=0, ...)
TestConfig ==
    [scale_factor |-> 0, start_date |-> Date(2023, 1, 1), end_date |-> Date(2023, 1, 7),
     num_customers |-> 5, num_items |-> 3, num_stores |-> 1, num_warehouses |-> 1,
     num_web_sites |-> 1, num_call_centers |-> 1]

\* tables_to_generate of the test mode
TestOrder ==
    <<"date_dim", "customer", "item", "store", "warehouse", "additional_dimensions",
      "store_sales">>

\* the keys 1..n of a dimension of n records
Keys(n) == [k \in 1..n |-> k]

\* the table that follows a table in tables_to_generate, "end" after the last
After(table) ==
    LET i == CHOOSE k \in DOMAIN TestOrder : TestOrder[k] = table
    IN  IF i = Len(TestOrder) THEN "end" ELSE TestOrder[i + 1]

\* while current_date <= self.config.end_date
InWindowBeforeEnd(d, end) == d # end /\ NotAfter(d, end)

InWindow(d, end) == NotAfter(d, end)

\* generate_date_dimension is entered: dates = [], current_date = start_date
BeginDates ==
    /\ test_pc = "date_dim"
    /\ test_dates = << >>
    /\ current_date = << >>
    /\ current_date' = config.start_date
    /\ UNCHANGED <<config, test_pc, test_dates, keys_of, stores, store_sales, sales_loop,
                   notTest>>

\* one iteration of the while loop of generate_date_dimension
AppendDate ==
    /\ test_pc = "date_dim"
    /\ current_date # << >>
    /\ InWindow(current_date, config.end_date)
    /\ test_dates' = Append(test_dates,
                          [d_date_sk |-> Len(test_dates) + 1, d_date |-> current_date])
    /\ current_date' = NextDay(current_date)
    /\ UNCHANGED <<config, test_pc, keys_of, stores, store_sales, sales_loop, notTest>>

\* after the loop: generated_data and dimension_keys are set
EndDates ==
    /\ test_pc = "date_dim"
    /\ current_date # << >>
    /\ ~InWindow(current_date, config.end_date)
    /\ keys_of' =
          Put(keys_of, "date_dim", [k \in DOMAIN test_dates |-> test_dates[k].d_date_sk])
    /\ test_pc' = After("date_dim")
    /\ UNCHANGED <<config, current_date, test_dates, stores, store_sales, sales_loop,
                   notTest>>

\* the generators of the other dimensions of the test mode; generate_customers
\* first generates the addresses and the demographics, which are not there
GenerateTestDimension ==
    /\ test_pc \in {"customer", "item", "store", "warehouse", "additional_dimensions"}
    /\ keys_of' =
          CASE test_pc = "customer" ->
                 Put(Put(Put(keys_of, "customer_address",
                             Keys(NumRegions * (config.num_customers \div 4))),
                         "customer_demographics", Keys(NumCustomerDemographics)),
                     "customer", Keys(config.num_customers))
            [] test_pc = "item" -> Put(keys_of, "item", Keys(config.num_items))
            [] test_pc = "store" -> Put(keys_of, "store", Keys(config.num_stores))
            [] test_pc = "warehouse" -> Put(keys_of, "warehouse", Keys(config.num_warehouses))
            [] test_pc = "additional_dimensions" ->
                 Put(Put(keys_of, "time_dim", Keys(NumTimes)),
                     "household_demographics", Keys(NumHouseholdDemographics))
    /\ stores' = IF test_pc = "store"
                 THEN [k \in 1..config.num_stores |-> [s_store_sk |-> k]] ELSE stores
    /\ test_pc' = After(test_pc)
    /\ UNCHANGED <<config, current_date, test_dates, store_sales, sales_loop, notTest>>

\* sample_dates = [d for i, d in enumerate(generated_data["date_dim"]) if i % 7 == 0]
SampleOf(records) ==
    SelectSeq(records, LAMBDA d : (d.d_date_sk - 1) % SampleEvery = 0)

\* generate_store_sales is entered (its dependencies are there): store_sales = []
BeginStoreSales ==
    /\ test_pc = "store_sales"
    /\ sales_loop = << >>
    /\ sales_loop' = [sample_dates |-> SampleOf(test_dates), date_i |-> 1, store_i |-> 1,
                      left |-> 0]
    /\ UNCHANGED <<config, test_pc, current_date, test_dates, keys_of, stores, store_sales,
                   notTest>>

\* for store_record in generated_data["store"]: store_transactions = max(1, ...)
NextStore ==
    /\ test_pc = "store_sales"
    /\ sales_loop # << >>
    /\ sales_loop.left = 0
    /\ sales_loop.date_i <= Len(sales_loop.sample_dates)
    /\ \E store_transactions \in 1..MaxStoreTransactions :
        sales_loop' = [sales_loop EXCEPT !.left = store_transactions]
    /\ UNCHANGED <<config, test_pc, current_date, test_dates, keys_of, stores, store_sales,
                   notTest>>

\* one iteration of: for _ in range(store_transactions); after the last one the
\* next store, after the last store the next sampled date
AppendTestSale ==
    /\ test_pc = "store_sales"
    /\ sales_loop # << >>
    /\ sales_loop.left > 0
    /\ \E customer_sk \in Range(keys_of["customer"]), item_sk \in Range(keys_of["item"]) :
        store_sales' =
            Append(store_sales,
                   [ss_sold_date_sk |-> sales_loop.sample_dates[sales_loop.date_i].d_date_sk,
                    ss_store_sk |-> stores[sales_loop.store_i].s_store_sk,
                    ss_customer_sk |-> customer_sk,
                    ss_item_sk |-> item_sk,
                    ss_ticket_number |-> Len(store_sales) + 1])
    /\ sales_loop' =
          IF sales_loop.left > 1 THEN [sales_loop EXCEPT !.left = @ - 1]
          ELSE IF sales_loop.store_i < Len(stores)
          THEN [sales_loop EXCEPT !.left = 0, !.store_i = @ + 1]
          ELSE [sales_loop EXCEPT !.left = 0, !.store_i = 1, !.date_i = @ + 1]
    /\ UNCHANGED <<config, test_pc, current_date, test_dates, keys_of, stores, notTest>>

\* after the loops: generated_data["store_sales"] = store_sales; the last table
EndStoreSales ==
    /\ test_pc = "store_sales"
    /\ sales_loop # << >>
    /\ sales_loop.left = 0
    /\ sales_loop.date_i > Len(sales_loop.sample_dates)
    /\ test_pc' = After("store_sales")
    /\ UNCHANGED <<config, current_date, test_dates, keys_of, stores, store_sales,
                   sales_loop, notTest>>

TestInit ==
    /\ config = TestConfig
    /\ test_pc = TestOrder[1]
    /\ current_date = << >>
    /\ test_dates = << >>
    /\ keys_of = << >>
    /\ stores = << >>
    /\ store_sales = << >>
    /\ sales_loop = << >>
    /\ GenOff
    /\ TableOff
    /\ LoadOff
    /\ SqlOff
    /\ RowOff
    /\ CreateOff
    /\ CopyOff
    /\ CliOff
    /\ ResolveOff
    /\ UserOff
    /\ CatalogOff

TestNext ==
    \/ BeginDates
    \/ AppendDate
    \/ EndDates
    \/ GenerateTestDimension
    \/ BeginStoreSales
    \/ NextStore
    \/ AppendTestSale
    \/ EndStoreSales

SpecTest == TestInit /\ [][TestNext]_vars

(***************************************************************************)
(* Claims about the test mode                                              *)
(***************************************************************************)
TestGenerated == test_pc = "end"

\* C14: at scale 0 the date dimension is not empty and holds exactly one
\* record per day of 2023-01-01..2023-01-07, with the keys 1..7 in date order,
\* and every ss_store_sk of store_sales is the key of the single store.
C14_TestModeTables ==
    TestGenerated =>
        /\ test_dates # << >>
        /\ Len(test_dates) = 7
        /\ \A k \in 1..7 : test_dates[k] = [d_date_sk |-> k, d_date |-> Date(2023, 1, k)]
        /\ keys_of["date_dim"] = <<1, 2, 3, 4, 5, 6, 7>>
        /\ Len(stores) = 1
        /\ \A k \in DOMAIN store_sales : store_sales[k].ss_store_sk = stores[1].s_store_sk

\* the run is over with the seven dates and with sales of the store
C14_Witness ==
    /\ TestGenerated
    /\ Len(test_dates) = 7
    /\ Len(store_sales) >= 2
    /\ store_sales[2].ss_store_sk = 1

(***************************************************************************)
(* COMMAND LINE (cli.py)                                                   *)
(*                                                                         *)
(* A command function calls its operation, prints one of two messages and  *)
(* returns; click then ends the process: with exit code 0 when the command *)
(* function returned, with 1 when an exception left it.                    *)
(***************************************************************************)
\* the commands and the operation each of them calls
Commands ==
    [schema_create |-> "db_manager.create_schema",
     schema_drop |-> "db_manager.drop_schema",
     schema_copy |-> "db_manager.copy_schema",
     generate_data |-> "generator.generate_data",
     load_data |-> "loader.load_data",
     truncate_data |-> "loader.truncate_tables"]

\* --schema (absent: "") and --confirm
CommandLines == [schema : SchemaNames, confirm : BOOLEAN]

\* the operation runs: it returns True or False, or an exception leaves it
CallOperation ==
    /\ cli_pc = "call"
    /\ \E outcome \in {"True", "False", "raised"} :
        /\ operation' = outcome
        /\ cli_pc' = IF outcome = "raised" THEN "exit" ELSE "print"
    /\ UNCHANGED <<command, options, message, exit_code, notCli>>

\* if <operation>: console.print(success) else: console.print(failure)
PrintOutcome ==
    /\ cli_pc = "print"
    /\ message' = IF operation = "True" THEN "success" ELSE "failure"
    /\ cli_pc' = "exit"
    /\ UNCHANGED <<command, options, operation, exit_code, notCli>>

\* main(): cli() in click's standalone mode
ExitProcess ==
    /\ cli_pc = "exit"
    /\ exit_code' = IF operation = "raised" THEN 1 ELSE 0
    /\ cli_pc' = "exited"
    /\ UNCHANGED <<command, options, operation, message, notCli>>

CliInit ==
    /\ cli_pc = "call"
    /\ command \in DOMAIN Commands
    /\ options \in CommandLines
    /\ operation = "none"
    /\ message = ""
    /\ exit_code = 0 - 1
    /\ GenOff
    /\ TableOff
    /\ LoadOff
    /\ SqlOff
    /\ RowOff
    /\ CreateOff
    /\ CopyOff
    /\ TestOff
    /\ ResolveOff
    /\ UserOff
    /\ CatalogOff

CliNext ==
    \/ CallOperation
    \/ PrintOutcome
    \/ ExitProcess

SpecCli == CliInit /\ [][CliNext]_vars

(***************************************************************************)
(* Claims about the command line                                           *)
(***************************************************************************)
\* C15: every command ends the process with exit code 0 only when its
\* operation returned full success; an operation that returns False gives a
\* non-zero exit code.
C15_ExitZeroOnlyOnSuccess ==
    cli_pc = "exited" =>
        /\ exit_code = 0 => operation = "True"
        /\ operation = "False" => exit_code # 0

(***************************************************************************)
(* SCHEMA NAME RESOLUTION (DatabaseManager._get_schema_name and            *)
(* DataLoader._get_schema_name)                                            *)
(***************************************************************************)
\* DataLoader._get_schema_name
Loader_get_schema_name(override, name) ==
    IF override # "" THEN Upper(override)
    ELSE IF name # "" THEN Upper(name)
    ELSE ""

\* a DatabaseManager method resolves the name
ResolveInDatabaseManager ==
    /\ "DatabaseManager" \notin resolved
    /\ db_schema_name' = _get_schema_name(schema_override, configured)
    /\ resolved' = resolved \cup {"DatabaseManager"}
    /\ UNCHANGED <<schema_override, configured, loader_schema_name, notResolve>>

\* a DataLoader method resolves the name
ResolveInDataLoader ==
    /\ "DataLoader" \notin resolved
    /\ loader_schema_name' = Loader_get_schema_name(schema_override, configured)
    /\ resolved' = resolved \cup {"DataLoader"}
    /\ UNCHANGED <<schema_override, configured, db_schema_name, notResolve>>

ResolveInit ==
    /\ schema_override \in SchemaNames
    /\ configured \in SchemaNames
    /\ resolved = {}
    /\ db_schema_name = ""
    /\ loader_schema_name = ""
    /\ GenOff
    /\ TableOff
    /\ LoadOff
    /\ SqlOff
    /\ RowOff
    /\ CreateOff
    /\ CopyOff
    /\ TestOff
    /\ CliOff
    /\ UserOff
    /\ CatalogOff

ResolveNext ==
    \/ ResolveInDatabaseManager
    \/ ResolveInDataLoader

SpecResolve == ResolveInit /\ [][ResolveNext]_vars

(***************************************************************************)
(* Claims about the schema name resolution                                 *)
(***************************************************************************)
\* the names of SchemaNames in upper case
InUpperCase ==
    [n \in SchemaNames |->
        CASE n \in {"sales", "Sales", "SALES"} -> "SALES"
          [] n = "hr" -> "HR"
          [] n = "tpcds_1" -> "TPCDS_1"
          [] OTHER -> ""]

\* C16: the resolved name is the override in upper case when the override is
\* not empty, else the configured name in upper case when that is not empty,
\* else the empty string; and the two resolvers return the same name.
C16_OverrideThenConfigured ==
    /\ "DatabaseManager" \in resolved =>
          db_schema_name = (IF schema_override # "" THEN InUpperCase[schema_override]
                            ELSE InUpperCase[configured])
    /\ resolved = {"DatabaseManager", "DataLoader"} => db_schema_name = loader_schema_name

\* both resolvers returned the override in upper case, over a configured name
C16_Witness ==
    /\ resolved = {"DatabaseManager", "DataLoader"}
    /\ schema_override = "Sales"
    /\ configured = "hr"
    /\ db_schema_name = "SALES"
    /\ loader_schema_name = "SALES"

(***************************************************************************)
(* SCHEMA TOOLS: creating the user (DatabaseManager._create_schema_user)   *)
(*                                                                         *)
(* The database answers each statement on its own: it runs, or it raises   *)
(* oracledb.Error.  A connection that is never closed stays open until the *)
(* interpreter collects it, which may be before or after the return.       *)
(***************************************************************************)
\* privileges of the elevated path, and GRANT UNLIMITED TABLESPACE after them
ElevatedPrivileges ==
    <<"CREATE SESSION", "CREATE TABLE", "CREATE SEQUENCE", "CREATE VIEW", "CREATE PROCEDURE",
      "CREATE TRIGGER", "CREATE SYNONYM", "UNLIMITED TABLESPACE">>

\* privileges of _create_schema_user_fallback
FallbackPrivileges == <<"CREATE SESSION", "CREATE TABLE", "UNLIMITED TABLESPACE">>

\* a connection no one closed, at the return
Collected(connection) == IF connection = "open" THEN {"open", "closed"} ELSE {connection}

\* return of _create_schema_user: the local connection goes out of scope
ReturnUser(value) ==
    /\ user_pc' = "done"
    /\ user_returned' = value
    /\ elevated' \in Collected(elevated)

\* connection = oracledb.connect(dsn=..., mode=oracledb.AUTH_MODE_SYSDBA)
ConnectElevated ==
    /\ user_pc = "sysdba"
    /\ \E raises \in BOOLEAN :
          IF raises
          THEN /\ user_pc' = "fallback"
               /\ via' = "fallback"
               /\ UNCHANGED elevated
          ELSE /\ user_pc' = "prepare"
               /\ via' = "elevated"
               /\ elevated' = "open"
    /\ UNCHANGED <<own_connection, privilege_i, granted, grant_failed, user_returned, notUser>>

\* ALTER SESSION SET CONTAINER, SELECT COUNT(*) FROM dba_users, CREATE USER: one
\* of them raises and the fallback is taken, or the grants begin
PrepareUser ==
    /\ user_pc = "prepare"
    /\ \E raises \in BOOLEAN :
          IF raises
          THEN /\ user_pc' = "fallback"
               /\ via' = "fallback"
          ELSE /\ user_pc' = "grant"
               /\ UNCHANGED via
    /\ UNCHANGED <<elevated, own_connection, privilege_i, granted, grant_failed, user_returned,
                   notUser>>

\* try: cursor.execute(f"GRANT {privilege} TO {schema_name}")
\* except oracledb.Error: pass
GrantElevated ==
    /\ user_pc = "grant"
    /\ privilege_i < Len(ElevatedPrivileges)
    /\ privilege_i' = privilege_i + 1
    /\ \E raises \in BOOLEAN :
          IF raises
          THEN /\ grant_failed' = grant_failed \cup {ElevatedPrivileges[privilege_i']}
               /\ UNCHANGED granted
          ELSE /\ granted' = Append(granted, ElevatedPrivileges[privilege_i'])
               /\ UNCHANGED grant_failed
    /\ UNCHANGED <<user_pc, via, elevated, own_connection, user_returned, notUser>>

\* connection.close(); return True
CloseElevated ==
    /\ user_pc = "grant"
    /\ privilege_i = Len(ElevatedPrivileges)
    /\ elevated' = "closed"
    /\ user_pc' = "done"
    /\ user_returned' = "True"
    /\ UNCHANGED <<via, own_connection, privilege_i, granted, grant_failed, notUser>>

\* with self.get_connection() as conn: oracledb.connect raises (except
\* oracledb.Error: return False), or connects
ConnectOwn ==
    /\ user_pc = "fallback"
    /\ \E raises \in BOOLEAN :
          IF raises
          THEN /\ ReturnUser("False")
               /\ UNCHANGED own_connection
          ELSE /\ user_pc' = "create"
               /\ own_connection' = "open"
               /\ UNCHANGED <<elevated, user_returned>>
    /\ UNCHANGED <<via, privilege_i, granted, grant_failed, notUser>>

\* cursor.execute(CREATE USER ...): ORA-01920 (the user exists) returns True,
\* every other error False; get_connection closes the connection on the way out
CreateUserFallback ==
    /\ user_pc = "create"
    /\ \E outcome \in {"created", "ORA-01031", "ORA-01920", "other"} :
          IF outcome = "created"
          THEN /\ user_pc' = "grant_fallback"
               /\ UNCHANGED <<elevated, own_connection, user_returned>>
          ELSE /\ ReturnUser(Answer(outcome = "ORA-01920"))
               /\ own_connection' = "closed"
    /\ UNCHANGED <<via, privilege_i, granted, grant_failed, notUser>>

\* cursor.execute(f"GRANT {privilege} TO {schema_name}"): an error leaves the
\* loop and the function (except oracledb.Error: return False)
GrantFallback ==
    /\ user_pc = "grant_fallback"
    /\ privilege_i < Len(FallbackPrivileges)
    /\ \E raises \in BOOLEAN :
          IF raises
          THEN /\ grant_failed' = grant_failed \cup {FallbackPrivileges[privilege_i + 1]}
               /\ ReturnUser("False")
               /\ own_connection' = "closed"
               /\ UNCHANGED <<privilege_i, granted>>
          ELSE /\ granted' = Append(granted, FallbackPrivileges[privilege_i + 1])
               /\ privilege_i' = privilege_i + 1
               /\ UNCHANGED <<user_pc, elevated, own_connection, grant_failed, user_returned>>
    /\ UNCHANGED <<via, notUser>>

\* conn.commit(); return True
CommitFallback ==
    /\ user_pc = "grant_fallback"
    /\ privilege_i = Len(FallbackPrivileges)
    /\ \E raises \in BOOLEAN : ReturnUser(Answer(~raises))
    /\ own_connection' = "closed"
    /\ UNCHANGED <<via, privilege_i, granted, grant_failed, notUser>>

UserInit ==
    /\ user_pc = "sysdba"
    /\ via = "none"
    /\ elevated = "none"
    /\ own_connection = "none"
    /\ privilege_i = 0
    /\ granted = << >>
    /\ grant_failed = {}
    /\ user_returned = "none"
    /\ GenOff
    /\ TableOff
    /\ LoadOff
    /\ SqlOff
    /\ RowOff
    /\ CreateOff
    /\ CopyOff
    /\ TestOff
    /\ CliOff
    /\ ResolveOff
    /\ CatalogOff

UserNext ==
    \/ ConnectElevated
    \/ PrepareUser
    \/ GrantElevated
    \/ CloseElevated
    \/ ConnectOwn
    \/ CreateUserFallback
    \/ GrantFallback
    \/ CommitFallback

SpecUser == UserInit /\ [][UserNext]_vars

(***************************************************************************)
(* Claims about creating the user                                          *)
(***************************************************************************)
\* the fixed set of privileges of the path taken
PrivilegesOf(path) == IF path = "elevated" THEN ElevatedPrivileges ELSE FallbackPrivileges

\* C24: while a schema-owning user is created, a GRANT that fails never makes
\* the creation report failure and never keeps the remaining privileges of the
\* fixed set from being granted, on the elevated path and on the fallback path
\* over the caller's own connection alike.
C24_FailedGrantTolerated ==
    (user_pc = "done" /\ grant_failed # {}) =>
        /\ user_returned = "True"
        /\ \A k \in DOMAIN PrivilegesOf(via) :
                PrivilegesOf(via)[k] \notin grant_failed =>
                    \E g \in DOMAIN granted : granted[g] = PrivilegesOf(via)[k]

\* C30: every connection _create_schema_user opens, the elevated one and the one
\* of get_connection in the fallback, is closed by the time it returns, also
\* when a statement fails after the elevated connection was obtained and the
\* fallback is taken.
C30_ConnectionsClosedAtReturn ==
    user_pc = "done" => elevated # "open" /\ own_connection # "open"

====
